---- MODULE Spec2Model ----
(***************************************************************************)
(* A model of the LoRa gateway's delivery pipeline: the storage tables     *)
(* `seen` and `queue` (db.ts) and the QueueManager of main.ts with its     *)
(* promise chain `running`, the flush passes chained on it, and the        *)
(* per-message delivery callbacks a pass hands to Promise.all; and of the   *)
(* cra.cz adapter: the Puller with its checkpoint in table `attrs`, the    *)
(* operator API client (login, date sub-windows, pages), and the webhook   *)
(* handlers of the cra.cz and ttn routers.                                 *)
(*                                                                         *)
(* The process is single threaded: every action below is one synchronous   *)
(* run of JavaScript between two awaits, or the execution of one storage   *)
(* statement together with the continuation it resumes.                    *)
(***************************************************************************)
EXTENDS Integers, FiniteSets, Sequences, TLC

\* ------------------------------------------------------------------ bounds
NMsgs == 3          \* distinct message ids
NPushMsgs == 1      \* ids, of the lowest, the adapters call push() with
MaxPush == 2        \* push() calls made by the adapters
MaxFails == 2       \* failures of the sink or of a storage statement
MaxFlush == 1       \* direct flush() calls
MaxCrash == 1       \* process crashes (each followed by a restart)
MaxActive == 2      \* _flush executions the model can hold at once
NPullers == 2       \* networks with pull credentials (Puller instances)
MaxTime == 4        \* the clock readings of the pull ticks
NDev == 2           \* devices an account lists, at most
MaxRecs == 2        \* records one getMessages call of a tick returns, at most
TicksPerDay == 2    \* clock ticks (the milliseconds of the model) in a day
MaxSpanDays == 95   \* days between from and to of a getMessages call
MaxFrom == 1        \* the latest from of a getMessages call, in ticks
MaxStoreCalls == 4  \* calls of db.enqueue and db.dequeue on the queue table
MaxClock == 6000    \* the latest reading of the clock of the timers, in ms
NCallers == 3       \* callers of one Lock
MaxEmits == 3       \* setImmediate callbacks of release() pending, at most

Msgs == 1..NMsgs
PushMsgs == 1..NPushMsgs
PushIds == 1..MaxPush
Slots == 1..MaxActive
Pullers == 1..NPullers

VARIABLES
    seen,       \* table seen: the ids marked seen (durable)
    queue,      \* table queue: the ids of the queued messages (durable)
    sink,       \* QueueManager.sink is defined
    pending,    \* _flush callbacks chained on `running` and not started yet
    pst,        \* per slot: where that execution of _flush stands
    batch,      \* per slot: the rows getMessages returned to it
    task,       \* per slot and message: the map callback given to Promise.all
    orphSink,   \* per message: callbacks awaiting sink() whose Promise.all has settled
    orphDeq,    \* per message: callbacks awaiting dequeue() whose Promise.all has settled
    pc,         \* per push() call: where it stands
    pmsg,       \* per push() call: its message
    nfail,      \* failures injected so far
    nflush,     \* direct flush() calls so far
    ncrash,     \* crashes so far
    calls,      \* history: per message, the sink invocations
    delivered,  \* history: messages for which a sink invocation succeeded
    failed      \* history: messages for which a sink call or a dequeue failed

VARIABLES
    attrs,      \* table attrs: per name, the value of its row (0: no row)
    clock,      \* the last reading of the system clock
    ppc,        \* per Puller: where its fetch() stands
    pnow,       \* per Puller: `now` of its tick
    psince,     \* per Puller: `since` of its tick
    pdevs,      \* per Puller: the devices getDevices gave (-1: not listed)
    pdev,       \* per Puller: the devices of the loop that are done
    pcb,        \* per Puller: callbacks Promise.all still waits for
    pgot,       \* history: per Puller, the records fetched in the tick
    pdone,      \* history: per Puller, the callbacks resolved in the tick
    pbad,       \* history: per Puller, a call of the tick has failed
    pown,       \* history: per Puller, the last checkpoint it wrote itself
    porph,      \* per Puller: callbacks pending whose Promise.all has rejected
    pcover      \* history: per Puller, the instants its successful ticks covered

VARIABLES
    afrom,      \* getMessages: the argument from
    ato,        \* getMessages: the argument to
    apc,        \* getMessages: where the call stands
    wfrom,      \* getMessages: the local from, start of the sub-window
    deadline,   \* getMessages: the local deadline, end of the sub-window
    offset,     \* getMessages: the local offset
    nmsg,       \* getMessages: the length of the local messages
    rpc,        \* requestJSONAuth: where the call in progress stands
    token,      \* API.accessToken is set
    wrecs,      \* the operator: records it holds in the sub-window
    alog,       \* history: the results of the sends and of the login of
                \* the requestJSONAuth call in progress, in order
    prevEnd,    \* history: the deadline of the sub-window before (-1: none)
    nwin,       \* history: requests with offset 0, one per sub-window
    ncont,      \* history: requests with an offset above 0
    wgot,       \* history: records received in the sub-window
    nfull,      \* history: pages received that held message_limit records
    srv         \* history: records the operator holds in the sub-windows
                \* queried so far

VARIABLES
    hadapter,   \* the webhook request: the adapter whose router gets it
    hnet,       \* the webhook request: what networks[params.name] is
    hheader,    \* the webhook request: its Authorization header
    hbody,      \* the webhook request: what its body is
    hpc,        \* the webhook request: where its handling stands
    hstatus,    \* the webhook request: the status of the response (0: none)
    hreply,     \* the webhook request: the body of the response
    hsteps      \* history: the steps that have read or inspected the body

VARIABLES
    lin,        \* decrypt: the bytes of ciphertext
    laddr,      \* decrypt: the bytes of Buffer.from(devaddr, 'hex')
    lkey,       \* decrypt: the bytes of Buffer.from(appskey, 'hex')
    lseq,       \* decrypt: seq, the frame counter
    lpc,        \* decrypt: which calls have returned
    lblocks,    \* history: the values of block_a the cipher was given
    lout,       \* decrypt: dst of the first call
    lback       \* decrypt: dst of the call on lout

VARIABLES
    msrc,       \* processMessage: src, the operator's record
    mcred,      \* args.credentials[src.EUI]: appskey and devaddr
    mpc,        \* processMessage: called, returned or thrown
    mout,       \* processMessage: the message given to onMessage
    dlog        \* history: the records the adapters got, each with the
                \* router or Puller that got it and its message

VARIABLES
    qtable,     \* table queue: its rows (message_id, message), as inserted
    qlast,      \* the last call of db.enqueue or db.dequeue and its outcome
    qcalls      \* history: the calls made

VARIABLES
    snow,       \* the clock of the timers, in milliseconds
    sstart,     \* the reading of the clock when the catch block of _flush
                \* was entered
    spc         \* the catch block: entered, asleep, or flush() called

VARIABLES
    locked,     \* Lock._locked
    listeners,  \* the listeners of 'release', in the order of their on()
    emits,      \* setImmediate callbacks of release() that have not run
    lkpc,       \* per caller: idle, waiting in acquire(), or holding
    woken       \* history: per caller, its acquire() resolved in a listener

VARIABLES
    sqlite,     \* the tables of the SQLiteDatabase: seen, attrs, queue
    postgres,   \* the tables of the PostgresSQLDatabase
    contract,   \* history: the ids marked, the value last set per name, and
                \* the messages enqueued and not dequeued since
    blast       \* the last call, what each backend returned, and what the
                \* calls before it call for

dbvars == <<seen, queue>>
storevars == <<qtable, qlast, qcalls>>
normvars == <<msrc, mcred, mpc, mout>>
delivervars == <<dlog>>
loravars == <<lin, laddr, lkey, lseq, lpc, lblocks, lout, lback>>
sleepvars == <<snow, sstart, spc>>
lockvars == <<locked, listeners, emits, lkpc, woken>>
backvars == <<sqlite, postgres, contract, blast>>
utilvars == <<sleepvars, lockvars, backvars>>
payloadvars == <<loravars, normvars, delivervars, storevars, utilvars>>
hookvars == <<hadapter, hnet, hheader, hbody, hpc, hstatus, hreply, hsteps>>
apivars == <<afrom, ato, apc, wfrom, deadline, offset, nmsg, rpc, token,
             wrecs, alog, prevEnd, nwin, ncont, wgot, nfull, srv>>
pullvars == <<attrs, clock, ppc, pnow, psince, pdevs, pdev, pcb, pgot, pdone,
              pbad, pown, porph, pcover>>
adaptervars == <<pullvars, apivars, hookvars, payloadvars>>
chainvars == <<pending, pst, batch, task, orphSink, orphDeq>>
pushvars == <<pc, pmsg>>
envvars == <<nfail, nflush, ncrash>>
histvars == <<calls, delivered, failed>>
vars == <<seen, queue, sink, pending, pst, batch, task, orphSink, orphDeq,
          pc, pmsg, nfail, nflush, ncrash, calls, delivered, failed,
          adaptervars>>

NoTasks == [m \in Msgs |-> "none"]
Zero == [m \in Msgs |-> 0]

\* ------------------------------------------------------------- QueueManager

\* new QueueManager(db): sink undefined, running = Promise.resolve(); no
\* push() in progress.
FreshMemory ==
    /\ sink = FALSE
    /\ pending = 0
    /\ pst = [s \in Slots |-> "free"]
    /\ batch = [s \in Slots |-> {}]
    /\ task = [s \in Slots |-> NoTasks]
    /\ orphSink = Zero
    /\ orphDeq = Zero

\* The name every Puller keeps its checkpoint under: the literal
\* 'timestamp' of db.get and db.set.
Keys == {"timestamp"}

CheckpointKey(p) == "timestamp"

\* FROM_EPOCH, the start of the first window, as a clock reading.
FROM_EPOCH == 0

\* A Puller whose constructor has run: its first fetch() is about to start.
NewPullers ==
    /\ ppc = [p \in Pullers |-> "timer"]
    /\ pnow = [p \in Pullers |-> 0]
    /\ psince = [p \in Pullers |-> 0]
    /\ pdevs = [p \in Pullers |-> -1]
    /\ pdev = [p \in Pullers |-> 0]
    /\ pcb = [p \in Pullers |-> 0]

\* The adapters at the start, on a database with no checkpoint.
InitPullers ==
    /\ attrs = [k \in Keys |-> 0]
    /\ clock = 0
    /\ NewPullers
    /\ pgot = [p \in Pullers |-> 0]
    /\ pdone = [p \in Pullers |-> 0]
    /\ pbad = [p \in Pullers |-> FALSE]
    /\ pown = [p \in Pullers |-> 0]
    /\ porph = [p \in Pullers |-> 0]
    /\ pcover = [p \in Pullers |-> {}]

\* message_limit and day_limit of getMessages.
message_limit == 1000
day_limit == 30

\* An API object after its constructor, and no getMessages call made.
NoApiCall ==
    /\ apc = "idle" /\ rpc = "none" /\ token = FALSE
    /\ wfrom = 0 /\ deadline = 0 /\ offset = 0 /\ nmsg = 0
    /\ wrecs = 0 /\ alog = <<>> /\ prevEnd = -1
    /\ nwin = 0 /\ ncont = 0 /\ wgot = 0 /\ nfull = 0 /\ srv = 0

\* The getMessages call of the queue and pull models: not made.
InitApiIdle == afrom = 0 /\ ato = 0 /\ NoApiCall

\* The process starts on a database a previous run may have left messages
\* in (the k highest ids, ids being interchangeable): every queued id was
\* marked seen before it was enqueued.
InitQueue ==
    /\ queue \in {(NMsgs - k + 1)..NMsgs : k \in 0..NMsgs}
    /\ seen = queue
    /\ FreshMemory
    /\ pc = [t \in PushIds |-> "idle"]
    /\ pmsg = [t \in PushIds |-> 1]
    /\ nfail = 0 /\ nflush = 0 /\ ncrash = 0
    /\ calls = Zero
    /\ delivered = {}
    /\ failed = {}

\* No webhook request has arrived.
InitHookIdle ==
    /\ hadapter = "cra.cz" /\ hnet = "unknown" /\ hheader = "none"
    /\ hbody = "ping" /\ hpc = "none" /\ hstatus = 0 /\ hreply = "none"
    /\ hsteps = {}

\* decrypt has not been called.
InitLoraIdle ==
    /\ lin = <<>> /\ laddr = <<>> /\ lkey = <<>> /\ lseq = 0
    /\ lpc = "none" /\ lblocks = <<>> /\ lout = <<>> /\ lback = <<>>

\* processMessage has not been called.
InitNormIdle == msrc = <<>> /\ mcred = <<>> /\ mpc = "none" /\ mout = <<>>

\* No adapter has got a record.
InitDeliverIdle == dlog = <<>>

\* The queue table is empty and has not been written to.
InitStoreIdle == qtable = <<>> /\ qlast = <<>> /\ qcalls = 0

\* No catch block of _flush is asleep.
InitSleepIdle == snow = 0 /\ sstart = 0 /\ spc = "none"

Callers == 1..NCallers

\* new Lock(): free, no listener; no caller has called acquire().
InitLockIdle ==
    /\ locked = FALSE /\ listeners = <<>> /\ emits = 0
    /\ lkpc = [c \in Callers |-> "idle"]
    /\ woken = [c \in Callers |-> FALSE]

\* Empty tables, as createTables and schema.sql leave them; no call yet.
EmptyTables == [attrs |-> {}, queue |-> {}, seen |-> {}]

InitBackIdle ==
    /\ sqlite = EmptyTables /\ postgres = EmptyTables
    /\ contract = EmptyTables
    /\ blast = <<>>

InitUtilIdle == InitSleepIdle /\ InitLockIdle /\ InitBackIdle

InitPayloadIdle ==
    /\ InitLoraIdle /\ InitNormIdle /\ InitDeliverIdle /\ InitStoreIdle
    /\ InitUtilIdle

\* The start of the process; the adapters have made no call yet.
Init ==
    /\ InitQueue /\ InitPullers /\ InitApiIdle /\ InitHookIdle
    /\ InitPayloadIdle

\* A flush() that chains nothing while a callback is already waiting.
FlushCollapse(p) == IF p >= 1 THEN p ELSE p + 1

\* flush(): this.running = this.running.then(this._flush): one more
\* callback at the end of the chain.
FlushChain(p) == p + 1

\* A flush() that calls _flush directly instead of chaining it.
ChainReadyNoWait == TRUE

\* A callback chained with then() runs when the promise before it has
\* resolved: when the _flush execution before it has returned.
ChainReady == \A s \in Slots : pst[s] = "free"

Active == {s \in Slots : pst[s] # "free"}

\* ------------------------------------------------------------------- push

\* A push that does not ask whether the id is seen.
PushCallUnchecked(t, m) ==
    /\ pc[t] = "idle"
    /\ \A r \in PushIds : r < t => pc[r] # "idle"
    /\ pc' = [pc EXCEPT ![t] = "setSeen"]
    /\ pmsg' = [pmsg EXCEPT ![t] = m]
    /\ UNCHANGED <<dbvars, sink, chainvars, envvars, histvars>>
    /\ UNCHANGED adaptervars

\* An adapter calls push(msg) with one of the ids the adapters deliver:
\* select * from seen where id=$1 runs; a seen id makes push return at
\* once, otherwise push goes on to db.setSeen(msg.id).
PushCall(t, m) ==
    /\ pc[t] = "idle"
    /\ \A r \in PushIds : r < t => pc[r] # "idle"
    /\ pc' = [pc EXCEPT ![t] = IF m \in seen THEN "noop" ELSE "setSeen"]
    /\ pmsg' = [pmsg EXCEPT ![t] = m]
    /\ UNCHANGED <<dbvars, sink, chainvars, envvars, histvars>>
    /\ UNCHANGED adaptervars

\* insert into seen (id) values ($1): the unique index seen_index rejects
\* an id that is there already, and push rejects with that error;
\* otherwise push goes on to db.enqueue(msg).
PushSetSeen(t) ==
    /\ pc[t] = "setSeen"
    /\ IF pmsg[t] \in seen
         THEN /\ pc' = [pc EXCEPT ![t] = "err"]
              /\ seen' = seen
         ELSE /\ pc' = [pc EXCEPT ![t] = "enqueue"]
              /\ seen' = seen \cup {pmsg[t]}
    /\ UNCHANGED <<queue, sink, chainvars, pmsg, envvars, histvars>>
    /\ UNCHANGED adaptervars

\* insert into queue (message_id, message): the unique index queue_index
\* rejects a queued id; otherwise the row is stored, push calls flush()
\* and returns.
PushEnqueue(t) ==
    /\ pc[t] = "enqueue"
    /\ IF pmsg[t] \in queue
         THEN /\ pc' = [pc EXCEPT ![t] = "err"]
              /\ UNCHANGED <<queue, pending>>
         ELSE /\ pc' = [pc EXCEPT ![t] = "ret"]
              /\ queue' = queue \cup {pmsg[t]}
              /\ pending' = FlushChain(pending)
    /\ UNCHANGED <<seen, sink, pst, batch, task, orphSink, orphDeq, pmsg,
                   envvars, histvars>>
    /\ UNCHANGED adaptervars

\* The insert into queue fails (the storage is unreachable, say): push
\* rejects; nothing undoes the insert into seen.
PushEnqueueFail(t) ==
    /\ pc[t] = "enqueue"
    /\ nfail < MaxFails
    /\ nfail' = nfail + 1
    /\ pc' = [pc EXCEPT ![t] = "err"]
    /\ UNCHANGED <<dbvars, sink, chainvars, pmsg, nflush, ncrash, histvars>>
    /\ UNCHANGED adaptervars

\* ------------------------------------------------------- setSink, flush

\* A setSink that stores the function and requests nothing.
SetSinkOnly(p) == p

\* The second statement of setSink: this.flush().
SetSinkFlush(p) == FlushChain(p)

\* setSink(f), which main calls once after the broker connection is up.
SetSink ==
    /\ ~sink
    /\ sink' = TRUE
    /\ pending' = SetSinkFlush(pending)
    /\ UNCHANGED <<dbvars, pst, batch, task, orphSink, orphDeq, pushvars,
                   envvars, histvars>>
    /\ UNCHANGED adaptervars

\* A direct call of flush().
FlushCall ==
    /\ nflush < MaxFlush
    /\ nflush' = nflush + 1
    /\ pending' = FlushChain(pending)
    /\ UNCHANGED <<dbvars, sink, pst, batch, task, orphSink, orphDeq,
                   pushvars, nfail, ncrash, histvars>>
    /\ UNCHANGED adaptervars

\* ------------------------------------------------------------ flush pass

\* The slot a starting execution of _flush takes: the lowest free one.
FreeSlot(s) == pst[s] = "free" /\ \A r \in Slots : r < s => pst[r] # "free"

\* A _flush that goes on to read the queue whether or not a sink is there.
SinkAssumed == TRUE

\* The test _flush starts with: this.sink === undefined makes it return.
SinkInstalled == sink

\* The next callback on the chain runs: _flush returns at once when no
\* sink is installed; otherwise select message from queue runs and gives
\* the rows of the table at this moment.
StartPass(s) ==
    /\ pending > 0
    /\ ChainReady
    /\ FreeSlot(s)
    /\ pending' = pending - 1
    /\ pst' = [pst EXCEPT ![s] = IF SinkInstalled THEN "got" ELSE "free"]
    /\ batch' = [batch EXCEPT ![s] = IF SinkInstalled THEN queue ELSE {}]
    /\ UNCHANGED <<dbvars, sink, task, orphSink, orphDeq, pushvars,
                   envvars, histvars>>
    /\ UNCHANGED adaptervars

\* The next callback on the chain runs and its getMessages rejects: the
\* catch block awaits sleep(5).
StartPassFail(s) ==
    /\ pending > 0
    /\ ChainReady
    /\ FreeSlot(s)
    /\ sink
    /\ nfail < MaxFails
    /\ nfail' = nfail + 1
    /\ pending' = pending - 1
    /\ pst' = [pst EXCEPT ![s] = "sleep"]
    /\ UNCHANGED <<dbvars, sink, batch, task, orphSink, orphDeq, pushvars,
                   nflush, ncrash, histvars>>
    /\ UNCHANGED adaptervars

\* _flush resumes with the rows: map() runs every callback to its
\* await this.sink(msg), so the sink is invoked for every row, and
\* _flush awaits Promise.all, which is resolved already for no rows.
MapBatch(s) ==
    /\ pst[s] = "got"
    /\ task' = [task EXCEPT ![s] =
                  [m \in Msgs |-> IF m \in batch[s] THEN "sink" ELSE "none"]]
    /\ calls' = [m \in Msgs |-> IF m \in batch[s] THEN calls[m] + 1 ELSE calls[m]]
    /\ batch' = [batch EXCEPT ![s] = {}]
    /\ pst' = [pst EXCEPT ![s] = IF batch[s] = {} THEN "free" ELSE "all"]
    /\ UNCHANGED <<dbvars, sink, pending, orphSink, orphDeq, pushvars,
                   envvars, delivered, failed>>
    /\ UNCHANGED adaptervars

\* A callback that dequeues whatever the sink did.
AfterSinkAlways(ok) == "deq"

\* What a callback does when its await this.sink(msg) settles: it goes on
\* to this.db.dequeue(msg) after a success and rejects after a failure.
AfterSink(ok) == IF ok THEN "deq" ELSE "rejected"

\* A pass that gives up the other deliveries when one of them fails.
StillRunningNone(s, m, ph) == {}

\* The callbacks of slot s, other than the one for m, that stand at phase
\* ph: when Promise.all rejects they are not cancelled and keep running.
StillRunning(s, m, ph) == {x \in Msgs \ {m} : task[s][x] = ph}

\* The callback for m rejects: Promise.all rejects and _flush enters its
\* catch block, awaiting sleep(5); the other callbacks run on.
Reject(s, m) ==
    /\ pst' = [pst EXCEPT ![s] = "sleep"]
    /\ task' = [task EXCEPT ![s] = NoTasks]
    /\ orphSink' = [x \in Msgs |->
          orphSink[x] + IF x \in StillRunning(s, m, "sink") THEN 1 ELSE 0]
    /\ orphDeq' = [x \in Msgs |->
          orphDeq[x] + IF x \in StillRunning(s, m, "deq") THEN 1 ELSE 0]

\* The callback for m resolves: Promise.all resolves when it was the last
\* one, and _flush returns.
Resolve(s, m) ==
    /\ task' = [task EXCEPT ![s] =
          IF \A x \in Msgs \ {m} : task[s][x] \in {"none", "ok"}
            THEN NoTasks ELSE [task[s] EXCEPT ![m] = "ok"]]
    /\ pst' = [pst EXCEPT ![s] =
          IF \A x \in Msgs \ {m} : task[s][x] \in {"none", "ok"}
            THEN "free" ELSE "all"]
    /\ UNCHANGED <<orphSink, orphDeq>>

\* this.sink(msg) settles for a callback Promise.all still waits for.
SinkDone(s, m, ok) ==
    /\ pst[s] = "all"
    /\ task[s][m] = "sink"
    /\ ok \/ nfail < MaxFails
    /\ nfail' = IF ok THEN nfail ELSE nfail + 1
    /\ delivered' = IF ok THEN delivered \cup {m} ELSE delivered
    /\ failed' = IF ok THEN failed ELSE failed \cup {m}
    /\ IF AfterSink(ok) = "deq"
         THEN /\ task' = [task EXCEPT ![s][m] = "deq"]
              /\ UNCHANGED <<pst, orphSink, orphDeq>>
         ELSE Reject(s, m)
    /\ UNCHANGED <<dbvars, sink, pending, batch, pushvars, nflush, ncrash,
                   calls>>
    /\ UNCHANGED adaptervars

\* delete from queue where message_id=$1 settles for a callback
\* Promise.all still waits for.
DequeueDone(s, m, ok) ==
    /\ pst[s] = "all"
    /\ task[s][m] = "deq"
    /\ ok \/ nfail < MaxFails
    /\ nfail' = IF ok THEN nfail ELSE nfail + 1
    /\ failed' = IF ok THEN failed ELSE failed \cup {m}
    /\ queue' = IF ok THEN queue \ {m} ELSE queue
    /\ IF ok THEN Resolve(s, m) ELSE Reject(s, m)
    /\ UNCHANGED <<seen, sink, pending, batch, pushvars, nflush, ncrash,
                   calls, delivered>>
    /\ UNCHANGED adaptervars

\* this.sink(msg) settles for a callback whose Promise.all has rejected:
\* the callback still goes on to dequeue; its rejection is dropped.
OrphanSinkDone(m, ok) ==
    /\ orphSink[m] > 0
    /\ ok \/ nfail < MaxFails
    /\ nfail' = IF ok THEN nfail ELSE nfail + 1
    /\ delivered' = IF ok THEN delivered \cup {m} ELSE delivered
    /\ failed' = IF ok THEN failed ELSE failed \cup {m}
    /\ orphSink' = [orphSink EXCEPT ![m] = @ - 1]
    /\ orphDeq' = IF AfterSink(ok) = "deq"
                    THEN [orphDeq EXCEPT ![m] = @ + 1] ELSE orphDeq
    /\ UNCHANGED <<dbvars, sink, pending, pst, batch, task, pushvars,
                   nflush, ncrash, calls>>
    /\ UNCHANGED adaptervars

\* The delete settles for a callback whose Promise.all has rejected.
OrphanDequeueDone(m, ok) ==
    /\ orphDeq[m] > 0
    /\ ok \/ nfail < MaxFails
    /\ nfail' = IF ok THEN nfail ELSE nfail + 1
    /\ failed' = IF ok THEN failed ELSE failed \cup {m}
    /\ queue' = IF ok THEN queue \ {m} ELSE queue
    /\ orphDeq' = [orphDeq EXCEPT ![m] = @ - 1]
    /\ UNCHANGED <<seen, sink, pending, pst, batch, task, orphSink,
                   pushvars, nflush, ncrash, calls, delivered>>
    /\ UNCHANGED adaptervars

\* A catch block that does not ask for another pass.
CatchNoRetry(p) == p

\* The catch block after its sleep: this.flush().
CatchRetry(p) == FlushChain(p)

\* A _flush that throws after its sleep: the promise it returned is
\* rejected, and so is `running`, whose then() callbacks never run again.
WakeThrow(s) ==
    /\ pst[s] = "sleep"
    /\ pending' = CatchRetry(pending)
    /\ pst' = [pst EXCEPT ![s] = "thrown"]
    /\ UNCHANGED <<dbvars, sink, batch, task, orphSink, orphDeq, pushvars,
                   envvars, histvars>>
    /\ UNCHANGED adaptervars

\* sleep(5) resolves: the catch block calls flush() and _flush returns.
Wake(s) ==
    /\ pst[s] = "sleep"
    /\ pending' = CatchRetry(pending)
    /\ pst' = [pst EXCEPT ![s] = "free"]
    /\ UNCHANGED <<dbvars, sink, batch, task, orphSink, orphDeq, pushvars,
                   envvars, histvars>>
    /\ UNCHANGED adaptervars

\* ------------------------------------------------------------------ crash

\* The process dies and is started again: the tables stay, the
\* QueueManager is a new one, and every call in progress is gone.
Crash ==
    /\ ncrash < MaxCrash
    /\ ncrash' = ncrash + 1
    /\ sink' = FALSE
    /\ pending' = 0
    /\ pst' = [s \in Slots |-> "free"]
    /\ batch' = [s \in Slots |-> {}]
    /\ task' = [s \in Slots |-> NoTasks]
    /\ orphSink' = Zero
    /\ orphDeq' = Zero
    /\ pc' = [t \in PushIds |->
                IF pc[t] \in {"setSeen", "enqueue"} THEN "dead" ELSE pc[t]]
    /\ UNCHANGED <<dbvars, pmsg, nfail, nflush, histvars>>
    /\ UNCHANGED adaptervars

Next ==
    \/ \E t \in PushIds, m \in PushMsgs : PushCall(t, m)
    \/ \E t \in PushIds : PushSetSeen(t)
    \/ \E t \in PushIds : PushEnqueue(t)
    \/ \E t \in PushIds : PushEnqueueFail(t)
    \/ SetSink
    \/ FlushCall
    \/ \E s \in Slots : StartPass(s)
    \/ \E s \in Slots : StartPassFail(s)
    \/ \E s \in Slots : MapBatch(s)
    \/ \E s \in Slots, m \in Msgs, ok \in BOOLEAN : SinkDone(s, m, ok)
    \/ \E s \in Slots, m \in Msgs, ok \in BOOLEAN : DequeueDone(s, m, ok)
    \/ \E m \in Msgs, ok \in BOOLEAN : OrphanSinkDone(m, ok)
    \/ \E m \in Msgs, ok \in BOOLEAN : OrphanDequeueDone(m, ok)
    \/ \E s \in Slots : Wake(s)

\* One run of the process.
Spec == Init /\ [][Next]_vars

\* Runs of the process with crashes and restarts between them, on a
\* database that holds at most one message at the start.
InitCrash == Init /\ Cardinality(queue) <= 1

NextCrash == Next \/ Crash

SpecCrash == InitCrash /\ [][NextCrash]_vars

\* Every call in progress settles, every chained callback and timer
\* runs, and main installs the sink.
Fairness ==
    /\ WF_vars(SetSink)
    /\ \A t \in PushIds : WF_vars(PushSetSeen(t) \/ PushEnqueue(t))
    /\ \A s \in Slots : WF_vars(StartPass(s))
    /\ \A s \in Slots : WF_vars(MapBatch(s))
    /\ \A s \in Slots : WF_vars(Wake(s))
    /\ \A s \in Slots, m \in Msgs : WF_vars(\E ok \in BOOLEAN : SinkDone(s, m, ok))
    /\ \A s \in Slots, m \in Msgs : WF_vars(\E ok \in BOOLEAN : DequeueDone(s, m, ok))
    /\ \A m \in Msgs : WF_vars(\E ok \in BOOLEAN : OrphanSinkDone(m, ok))
    /\ \A m \in Msgs : WF_vars(\E ok \in BOOLEAN : OrphanDequeueDone(m, ok))

\* The flush loop alone, on the messages a previous run left queued.
NextLive ==
    \/ SetSink
    \/ \E s \in Slots : StartPass(s)
    \/ \E s \in Slots : StartPassFail(s)
    \/ \E s \in Slots : MapBatch(s)
    \/ \E s \in Slots, m \in Msgs, ok \in BOOLEAN : SinkDone(s, m, ok)
    \/ \E s \in Slots, m \in Msgs, ok \in BOOLEAN : DequeueDone(s, m, ok)
    \/ \E m \in Msgs, ok \in BOOLEAN : OrphanSinkDone(m, ok)
    \/ \E m \in Msgs, ok \in BOOLEAN : OrphanDequeueDone(m, ok)
    \/ \E s \in Slots : Wake(s)

SpecLive == Init /\ [][NextLive]_vars /\ Fairness

\* The pushes and the flush loop, with no direct flush() call, on a
\* database that holds at most one message at the start.
NextLate ==
    \/ \E t \in PushIds, m \in PushMsgs : PushCall(t, m)
    \/ \E t \in PushIds : PushSetSeen(t)
    \/ \E t \in PushIds : PushEnqueue(t)
    \/ \E t \in PushIds : PushEnqueueFail(t)
    \/ NextLive

SpecLate == InitCrash /\ [][NextLate]_vars /\ Fairness

\* ------------------------------------------------------------ pull adapter

queuevars == <<dbvars, sink, chainvars, pushvars, envvars, histvars>>
nonpullvars == <<queuevars, apivars, hookvars, payloadvars>>
pullhist == <<porph, pcover>>

\* The timer of Puller p fires (or its constructor calls fetch()): now is
\* read from the clock, which has advanced, and db.get('timestamp') is
\* awaited. The counts of the tick start anew.
FetchStart(p) ==
    /\ ppc[p] = "timer"
    /\ clock < MaxTime
    /\ clock' = clock + 1
    /\ pnow' = [pnow EXCEPT ![p] = clock + 1]
    /\ ppc' = [ppc EXCEPT ![p] = "get"]
    /\ pdevs' = [pdevs EXCEPT ![p] = -1]
    /\ pdev' = [pdev EXCEPT ![p] = 0]
    /\ pcb' = [pcb EXCEPT ![p] = 0]
    /\ pgot' = [pgot EXCEPT ![p] = 0]
    /\ pdone' = [pdone EXCEPT ![p] = 0]
    /\ pbad' = [pbad EXCEPT ![p] = FALSE]
    /\ UNCHANGED <<attrs, psince, pown, nonpullvars, pullhist>>

\* A fetch() that awaits db.get inside its try block.
GetFailedCaught == "timer"

\* Where fetch() stands after a rejected db.get: the await is outside
\* the try blocks, so fetch() rejects before it reaches setTimeout.
GetFailed == "stopped"

\* A window that starts one clock reading after the stored checkpoint.
SinceAfter(timestamp) == IF timestamp = 0 THEN FROM_EPOCH ELSE timestamp + 1

\* since of a tick: the stored checkpoint, or FROM_EPOCH when db.get
\* gave undefined.
Since(timestamp) == IF timestamp = 0 THEN FROM_EPOCH ELSE timestamp

\* select value from attrs where name='timestamp' settles: since is the
\* stored value, or FROM_EPOCH when there is no row, and getDevices is
\* awaited.
GetDone(p, ok) ==
    /\ ppc[p] = "get"
    /\ ppc' = [ppc EXCEPT ![p] = IF ok THEN "devices" ELSE GetFailed]
    /\ psince' = [psince EXCEPT ![p] =
          IF ~ok THEN @
          ELSE Since(attrs[CheckpointKey(p)])]
    /\ pbad' = [pbad EXCEPT ![p] = @ \/ ~ok]
    /\ UNCHANGED <<attrs, clock, pnow, pdevs, pdev, pcb, pgot, pdone, pown,
                   nonpullvars, pullhist>>

\* Where the loop over the devices goes when `done` of `all` devices are
\* through: to getMessages of the next one, or past the loop to db.set.
NextDevice(done, all) == IF done < all THEN "messages" ELSE "set"

\* getDevices settles: with n devices the loop starts; a rejection is
\* caught by the outer catch, and setTimeout schedules the next tick.
DevicesDone(p, ok, n) ==
    /\ ppc[p] = "devices"
    /\ ppc' = [ppc EXCEPT ![p] = IF ok THEN NextDevice(0, n) ELSE "timer"]
    /\ pdevs' = [pdevs EXCEPT ![p] = IF ok THEN n ELSE @]
    /\ pbad' = [pbad EXCEPT ![p] = @ \/ ~ok]
    /\ UNCHANGED <<attrs, clock, pnow, psince, pdev, pcb, pgot, pdone, pown,
                   nonpullvars, pullhist>>

\* getMessages(device, since, now) settles: with n records the callback
\* is called for each and Promise.all awaited, which is resolved already
\* for no records; a rejection is caught by the inner catch.
MessagesDone(p, ok, n) ==
    /\ ppc[p] = "messages"
    /\ ppc' = [ppc EXCEPT ![p] =
          IF ~ok THEN "timer"
          ELSE IF n > 0 THEN "callbacks"
          ELSE NextDevice(pdev[p] + 1, pdevs[p])]
    /\ pdev' = [pdev EXCEPT ![p] = IF ok /\ n = 0 THEN @ + 1 ELSE @]
    /\ pcb' = [pcb EXCEPT ![p] = IF ok THEN n ELSE @]
    /\ pgot' = [pgot EXCEPT ![p] = IF ok THEN @ + n ELSE @]
    /\ pbad' = [pbad EXCEPT ![p] = @ \/ ~ok]
    /\ UNCHANGED <<attrs, clock, pnow, psince, pdevs, pdone, pown, nonpullvars, pullhist>>
\* A tick that takes every settled callback for a resolved one.
CallbackIgnored(ok) == TRUE

\* What Promise.all sees of a settled callback: resolved or rejected.
CallbackOutcome(ok) == ok

\* A callback (processMessage, which ends in push) settles: Promise.all
\* resolves with the last one and the loop goes on; a rejection rejects
\* Promise.all at once, the inner catch logs it and setTimeout schedules
\* the next tick.
CallbackDone(p, ok) ==
    /\ ppc[p] = "callbacks"
    /\ pcb[p] > 0
    /\ pdone' = [pdone EXCEPT ![p] = IF ok THEN @ + 1 ELSE @]
    /\ pbad' = [pbad EXCEPT ![p] = @ \/ ~ok]
    /\ IF CallbackOutcome(ok)
         THEN /\ pcb' = [pcb EXCEPT ![p] = @ - 1]
              /\ pdev' = [pdev EXCEPT ![p] = IF pcb[p] = 1 THEN @ + 1 ELSE @]
              /\ ppc' = [ppc EXCEPT ![p] =
                    IF pcb[p] = 1 THEN NextDevice(pdev[p] + 1, pdevs[p])
                    ELSE "callbacks"]
         ELSE /\ pcb' = [pcb EXCEPT ![p] = 0]
              /\ ppc' = [ppc EXCEPT ![p] = "timer"]
              /\ pdev' = pdev
    /\ porph' = [porph EXCEPT ![p] =
          IF CallbackOutcome(ok) THEN @ ELSE @ + pcb[p] - 1]
    /\ UNCHANGED <<attrs, clock, pnow, psince, pdevs, pgot, pown, pcover,
                   nonpullvars>>

\* A callback settles whose Promise.all has rejected already: nothing
\* waits for it.
OrphanCallbackDone(p) ==
    /\ porph[p] > 0
    /\ porph' = [porph EXCEPT ![p] = @ - 1]
    /\ UNCHANGED <<attrs, clock, ppc, pnow, psince, pdevs, pdev, pcb, pgot,
                   pdone, pbad, pown, pcover, nonpullvars>>

\* insert into attrs ... on conflict do update settles: the row holds
\* now.toISOString(); a rejection is caught by the inner catch. Either
\* way setTimeout schedules the next tick.
SetDone(p, ok) ==
    /\ ppc[p] = "set"
    /\ ppc' = [ppc EXCEPT ![p] = "timer"]
    /\ attrs' = IF ok THEN [attrs EXCEPT ![CheckpointKey(p)] = pnow[p]]
                      ELSE attrs
    /\ pown' = [pown EXCEPT ![p] = IF ok THEN pnow[p] ELSE @]
    /\ pcover' = [pcover EXCEPT ![p] =
          IF ok THEN @ \cup (psince[p]..pnow[p]) ELSE @]
    /\ pbad' = [pbad EXCEPT ![p] = @ \/ ~ok]
    /\ UNCHANGED <<clock, pnow, psince, pdevs, pdev, pcb, pgot, pdone, porph,
                   nonpullvars>>

\* The process dies in the middle of some tick and is started again:
\* table attrs stays, the Pullers are new ones.
PullCrash ==
    /\ \E p \in Pullers : ppc[p] \notin {"timer", "stopped"}
    /\ ppc' = [p \in Pullers |-> "timer"]
    /\ pnow' = [p \in Pullers |-> 0]
    /\ psince' = [p \in Pullers |-> 0]
    /\ pdevs' = [p \in Pullers |-> -1]
    /\ pdev' = [p \in Pullers |-> 0]
    /\ pcb' = [p \in Pullers |-> 0]
    /\ pbad' = [p \in Pullers |-> TRUE]
    /\ porph' = [p \in Pullers |-> 0]
    /\ UNCHANGED <<attrs, clock, pgot, pdone, pown, pcover, nonpullvars>>

NextPull ==
    \/ \E p \in Pullers : FetchStart(p)
    \/ \E p \in Pullers, ok \in BOOLEAN : GetDone(p, ok)
    \/ \E p \in Pullers, ok \in BOOLEAN, n \in 0..NDev : DevicesDone(p, ok, n)
    \/ \E p \in Pullers, ok \in BOOLEAN, n \in 0..MaxRecs : MessagesDone(p, ok, n)
    \/ \E p \in Pullers, ok \in BOOLEAN : CallbackDone(p, ok)
    \/ \E p \in Pullers : OrphanCallbackDone(p)
    \/ \E p \in Pullers, ok \in BOOLEAN : SetDone(p, ok)
    \/ PullCrash

\* The Pullers of the configured networks, polling against one database;
\* no message is queued.
InitPull == Init /\ queue = {}

SpecPull == InitPull /\ [][NextPull]_vars

\* ------------------------------------------------------------ operator API

nonapivars == <<queuevars, pullvars, hookvars, payloadvars>>

\* A day, in clock ticks.
Day == TicksPerDay

Min(a, b) == IF a < b THEN a ELSE b

\* The numbers of records the operator may hold in one sub-window.
RecSizes ==
    {0, message_limit \div 2, message_limit - 1, message_limit,
     message_limit + 1, 2 * message_limit + message_limit \div 2}

\* A deadline that is not cut back to `to`.
NextDeadlineUncapped(d, to) == d + day_limit * Day

\* deadline.setDate(deadline.getDate() + day_limit);
\* if (deadline > to) deadline = to.
NextDeadline(d, to) == Min(d + day_limit * Day, to)

\* The operator's answer to a request with limit=message_limit and
\* offset=off for a sub-window it holds recs records in: the records
\* from position off on, message_limit of them at most.
Page(recs, off) == Min(message_limit, IF recs > off THEN recs - off ELSE 0)

\* A loop over the pages that ends with the first empty page.
LastPageIsEmpty(n) == n = 0

\* if (res.data.length < message_limit) break.
LastPage(n) == n < message_limit

\* An offset that counts pages instead of records.
NextOffsetByPage(off, n) == off + 1

\* offset += res.data.length.
NextOffset(off, n) == off + n

\* requestJSONAuth is called: the first requestJSON is sent.
Request == rpc' = "send1" /\ alog' = <<>>

\* getMessages(device, from, to) is called: the first sub-window starts
\* at from, the operator holds r records in it, and the request with
\* offset 0 is made.
GetMessagesCall(r) ==
    /\ apc = "idle"
    /\ apc' = "req"
    /\ wfrom' = afrom
    /\ deadline' = NextDeadline(afrom, ato)
    /\ offset' = 0 /\ nmsg' = 0
    /\ wrecs' = r /\ srv' = r /\ wgot' = 0
    /\ nwin' = 1 /\ ncont' = 0 /\ nfull' = 0 /\ prevEnd' = -1
    /\ Request
    /\ UNCHANGED <<afrom, ato, token, nonapivars>>
\* A requestJSONAuth that logs in again after any failure.
NeedsLoginAlways(code) == TRUE

\* if (error.code !== 401) throw error: only 401 leads to a login.
NeedsLogin(code) == code = "401"

\* The first requestJSON settles: its result is returned; on 401
\* getAccessToken is called, which deletes the token and posts the
\* credentials; any other error is thrown, and getMessages rejects.
Send1Done(res) ==
    /\ rpc = "send1"
    /\ alog' = Append(alog, res)
    /\ rpc' = IF res = "ok" THEN "ret"
              ELSE IF NeedsLogin(res) THEN "login" ELSE "none"
    /\ apc' = IF res = "ok" \/ NeedsLogin(res) THEN apc ELSE "failed"
    /\ token' = IF res # "ok" /\ NeedsLogin(res) THEN FALSE ELSE token
    /\ UNCHANGED <<afrom, ato, wfrom, deadline, offset, nmsg, wrecs, prevEnd,
                   nwin, ncont, wgot, nfull, srv, nonapivars>>

\* getAccessToken settles: with the new token the request is sent a
\* second time; its error is thrown.
LoginDone(ok) ==
    /\ rpc = "login"
    /\ alog' = Append(alog, IF ok THEN "login" ELSE "nologin")
    /\ token' = ok
    /\ rpc' = IF ok THEN "send2" ELSE "none"
    /\ apc' = IF ok THEN apc ELSE "failed"
    /\ UNCHANGED <<afrom, ato, wfrom, deadline, offset, nmsg, wrecs, prevEnd,
                   nwin, ncont, wgot, nfull, srv, nonapivars>>

\* The second requestJSON settles: its result is returned, its error
\* thrown, whatever the code.
Send2Done(res) ==
    /\ rpc = "send2"
    /\ alog' = Append(alog, res)
    /\ rpc' = IF res = "ok" THEN "ret" ELSE "none"
    /\ apc' = IF res = "ok" THEN apc ELSE "failed"
    /\ UNCHANGED <<afrom, ato, wfrom, deadline, offset, nmsg, wrecs, prevEnd,
                   nwin, ncont, wgot, nfull, token, srv, nonapivars>>

\* getMessages resumes with the page (an operator with nothing left may
\* answer without data, which ends the pages as an empty page does): the
\* records are added to messages; after a full page the next page is
\* requested; after a short one the next sub-window starts 1 ms past
\* the deadline, the operator holding r records in it, or, the deadline
\* having reached to, getMessages returns.
PageDone(r, isArray) ==
    /\ apc = "req" /\ rpc = "ret"
    /\ isArray \/ Page(wrecs, offset) = 0
    /\ LET n == Page(wrecs, offset) IN
        /\ nmsg' = nmsg + n
        /\ nfull' = IF n = message_limit THEN nfull + 1 ELSE nfull
        /\ IF isArray /\ ~LastPage(n)
             THEN /\ offset' = NextOffset(offset, n)
                  /\ wgot' = wgot + n
                  /\ ncont' = ncont + 1
                  /\ Request
                  /\ UNCHANGED <<apc, wfrom, deadline, wrecs, prevEnd, nwin, srv>>
             ELSE IF deadline >= ato
             THEN /\ apc' = "done" /\ rpc' = "none"
                  /\ wgot' = wgot + n
                  /\ UNCHANGED <<alog, wfrom, deadline, offset, wrecs,
                                 prevEnd, nwin, ncont, srv>>
             ELSE /\ wfrom' = deadline + 1
                  /\ deadline' = NextDeadline(deadline, ato)
                  /\ prevEnd' = deadline
                  /\ offset' = 0
                  /\ wrecs' = r /\ srv' = srv + r /\ wgot' = 0
                  /\ nwin' = nwin + 1
                  /\ Request
                  /\ UNCHANGED <<apc, ncont>>
    /\ UNCHANGED <<afrom, ato, token, nonapivars>>

NextApi ==
    \/ \E r \in RecSizes : GetMessagesCall(r)
    \/ \E res \in {"ok", "401", "err"} : Send1Done(res)
    \/ \E ok \in BOOLEAN : LoginDone(ok)
    \/ \E res \in {"ok", "401", "err"} : Send2Done(res)
    \/ \E r \in RecSizes, isArray \in BOOLEAN : PageDone(r, isArray)

\* One getMessages call, for any from of the first ticks and any to up
\* to MaxSpanDays later, against an operator that holds a stable set of
\* records and may reject any request.
InitApi ==
    /\ InitQueue /\ queue = {}
    /\ InitPullers
    /\ InitHookIdle /\ InitPayloadIdle
    /\ afrom \in 0..MaxFrom
    /\ ato \in afrom..(afrom + MaxSpanDays * Day)
    /\ NoApiCall

SpecApi == InitApi /\ [][NextApi]_vars

\* ---------------------------------------------------------------- webhook

nonhookvars == <<queuevars, pullvars, apivars, payloadvars>>

\* The routers: craApi mounted at /cra.cz, ttnApi at /ttn.
Adapters == {"cra.cz", "ttn"}

\* networks[params.name]: undefined, a network with no push.authorization,
\* or a network whose push.authorization is the string `secret`.
NetKinds == {"unknown", "open", "secret"}

\* The Authorization header of the request.
Headers == {"none", "secret", "Bearer secret", "Bearer other"}

\* The body of the request: text that is not JSON; or the JSON of a
\* ping, of an object that is no envelope, of an envelope whose data is
\* not JSON, of an envelope with a message that fails isCraMessage, of
\* an envelope with a message that passes isCraMessage and has an empty
\* payload (data or encdata is ""), of an envelope with a message that
\* has a payload.  The router of ttn gets the same bodies; its message
\* is the body "msg" itself, with uplink_message and end_device_ids, and
\* none of the other objects has an uplink_message.
Bodies == {"malformed", "ping", "noenvelope", "baddata", "badmsg",
           "nopayload", "msg"}

\* The test of the header: cra.cz compares the trimmed header with the
\* secret, ttn wants the two words `Bearer` and the secret.
HeaderMatches(adapter, header) ==
    IF adapter = "cra.cz" THEN header = "secret"
    ELSE header = "Bearer secret"

\* The checks of the body the handler makes after the header test, in
\* order, up to the one that ends the handling: isPing, isEnvelope,
\* JSON.parse(body.data), isCraMessage for cra.cz; typeof body for ttn.
BodySteps(adapter, body) ==
    IF adapter = "ttn" THEN {"validate"}
    ELSE CASE body = "ping" -> {"ping"}
           [] body = "noenvelope" -> {"ping", "envelope"}
           [] body = "baddata" -> {"ping", "envelope", "parse"}
           [] OTHER -> {"ping", "envelope", "parse", "validate"}

\* A handler without the test of isPing: the ping is no envelope.
BodyStatusNoPing(adapter, body) ==
    IF adapter = "ttn" THEN 0
    ELSE CASE body \in {"ping", "noenvelope", "baddata", "badmsg"} -> 400
           [] OTHER -> 0

\* The status those checks end the handling with; 0 when they pass and
\* processMessage is called.
BodyStatus(adapter, body) ==
    IF adapter = "ttn" THEN 0
    ELSE CASE body = "ping" -> 200
           [] body \in {"noenvelope", "baddata", "badmsg"} -> 400
           [] OTHER -> 0

\* processMessage throws before it calls onMessage: cra.cz on a message
\* with neither data nor encdata to read (`Missing payload`), ttn on a
\* body whose uplink_message is undefined (a TypeError).
Throws(adapter, body) ==
    IF adapter = "ttn" THEN body # "msg" ELSE body = "nopayload"

\* The body of the response the handler sends: res.status(200).end()
\* sends none, jsonifyError sends the JSON of {code, reason, message}.
Reply(status) == IF status = 200 THEN "empty" ELSE "json"

\* api.use(express.json()): the middleware reads the body and parses it
\* before the route's handler is called; text that is not JSON ends the
\* request with the parser's error, status 400.
JsonBody ==
    /\ hpc = "recv"
    /\ hsteps' = hsteps \cup {"json"}
    /\ hpc' = IF hbody = "malformed" THEN "sent" ELSE "handler"
    /\ hstatus' = IF hbody = "malformed" THEN 400 ELSE hstatus
    /\ hreply' = IF hbody = "malformed" THEN "html" ELSE hreply
    /\ UNCHANGED <<hadapter, hnet, hheader, hbody, nonhookvars>>

\* The handler of api.post('/:name') up to its await: NotFoundError for
\* an unknown network, UnauthorizedError for a header that fails the
\* test of a network with a secret, then the checks of the body and
\* the call of processMessage.
Handler ==
    /\ hpc = "handler"
    /\ IF hnet = "unknown"
         THEN /\ hstatus' = 404 /\ hpc' = "sent" /\ hsteps' = hsteps
              /\ hreply' = Reply(404)
         ELSE IF hnet = "secret" /\ ~HeaderMatches(hadapter, hheader)
         THEN /\ hstatus' = 401 /\ hpc' = "sent" /\ hsteps' = hsteps
              /\ hreply' = Reply(401)
         ELSE /\ hsteps' = hsteps \cup BodySteps(hadapter, hbody)
              /\ hstatus' = BodyStatus(hadapter, hbody)
              /\ hpc' = IF BodyStatus(hadapter, hbody) = 0
                          THEN "process" ELSE "sent"
              /\ hreply' = IF BodyStatus(hadapter, hbody) = 0 THEN hreply
                            ELSE Reply(BodyStatus(hadapter, hbody))
    /\ UNCHANGED <<hadapter, hnet, hheader, hbody, nonhookvars>>

\* processMessage settles: it threw, or onMessage (QueueManager.push)
\* was called and resolved or rejected; then res.status(200).end(), or
\* jsonify's answer to the error, status 500.
ProcessDone(ok) ==
    /\ hpc = "process"
    /\ ok => ~Throws(hadapter, hbody)
    /\ hsteps' = hsteps \cup {"process"} \cup
                 (IF Throws(hadapter, hbody) THEN {} ELSE {"push"})
    /\ hstatus' = IF ok THEN 200 ELSE 500
    /\ hreply' = Reply(IF ok THEN 200 ELSE 500)
    /\ hpc' = "sent"
    /\ UNCHANGED <<hadapter, hnet, hheader, hbody, nonhookvars>>

NextHook ==
    \/ JsonBody
    \/ Handler
    \/ \E ok \in BOOLEAN : ProcessDone(ok)

\* One POST request to one of the routers, of any kind.
InitHook ==
    /\ InitQueue /\ queue = {}
    /\ InitPullers /\ InitApiIdle /\ InitPayloadIdle
    /\ hadapter \in Adapters /\ hnet \in NetKinds
    /\ hheader \in Headers /\ hbody \in Bodies
    /\ hpc = "recv" /\ hstatus = 0 /\ hreply = "none" /\ hsteps = {}

SpecHook == InitHook /\ [][NextHook]_vars

\* ---------------------------------------------------------------- decrypt

nonloravars == <<queuevars, pullvars, apivars, hookvars, normvars,
                 delivervars, storevars, utilvars>>

\* The bytes of a cipher block.
BlockSize == 16

\* The sum of two bytes, modulo 256, in the place of a ^ b.
Plus(a, b) == (a + b) % 256

\* a ^ b of two bytes.
Xor(a, b) ==
    LET d(k) == (((a \div 2^k) + (b \div 2^k)) % 2) * 2^k
    IN  d(0) + d(1) + d(2) + d(3) + d(4) + d(5) + d(6) + d(7)

\* (seq >> k) & 0xff, of a seq below 2^31.
ByteOf(seq, k) == (seq \div 2^k) % 256

\* block_a in the pass of the loop whose i is given; addr[n] of the code
\* is addr[n + 1] here.
block_a(addr, seq, i) ==
    <<1, 0, 0, 0, 0, 0,
      addr[4], addr[3], addr[2], addr[1],
      ByteOf(seq, 0), ByteOf(seq, 8), ByteOf(seq, 16), ByteOf(seq, 24),
      0,
      (i + 1) % 256>>

\* cipher.update(block): the sixteen bytes AES-128 in ECB mode makes of
\* one block under the key.  The cipher itself is not computed: these
\* bytes are a fixed function of every byte of the key and of the block.
Update(key, block) ==
    LET mix == [n \in 0..BlockSize |->
                  IF n = 0 THEN 0
                  ELSE (n * (key[n] + 3 * block[n] + 1)) % 256]
        RECURSIVE Sum(_)
        Sum(n) == IF n = 0 THEN 0 ELSE (mix[n] + Sum(n - 1)) % 256
    IN  [j \in 1..BlockSize |-> (Sum(BlockSize) * j + 7 * j + key[j]) % 256]

\* The values i takes in for (i = 0; i < ciphertext.length; i += 16).
Offsets(len) == {i \in 0..(len - 1) : i % BlockSize = 0}

\* decrypt(ciphertext, devaddr, appskey, seq): dst[i + j] = ciphertext[i
\* + j] ^ block_s[j] for the j below left = min(length - i, 16).
decrypt(ciphertext, addr, key, seq) ==
    LET block_s == [i \in Offsets(Len(ciphertext)) |->
                      Update(key, block_a(addr, seq, i))]
    IN  [n \in 1..Len(ciphertext) |->
           Xor(ciphertext[n],
               block_s[(n - 1) - ((n - 1) % BlockSize)][((n - 1) % BlockSize) + 1])]

\* The contents a ciphertext of a given length is taken to have.
Fill(len, a) == [n \in 1..len |-> (a * n + a) % 256]

\* The lengths of the ciphertexts: one byte, a block less one, a block,
\* a block and one, 4096 bytes.
Lengths == {1, BlockSize - 1, BlockSize, BlockSize + 1,
            BlockSize * BlockSize * BlockSize}

\* The first call of decrypt.
Decrypt ==
    /\ lpc = "in"
    /\ lout' = decrypt(lin, laddr, lkey, lseq)
    /\ lblocks' = [k \in 1..Cardinality(Offsets(Len(lin))) |->
                     block_a(laddr, lseq, BlockSize * (k - 1))]
    /\ lpc' = "out"
    /\ UNCHANGED <<lin, laddr, lkey, lseq, lback, nonloravars>>

\* decrypt called on what the first call returned.
DecryptAgain ==
    /\ lpc = "out"
    /\ lback' = decrypt(lout, laddr, lkey, lseq)
    /\ lpc' = "back"
    /\ UNCHANGED <<lin, laddr, lkey, lseq, lblocks, lout, nonloravars>>

NextLora == Decrypt \/ DecryptAgain

\* One ciphertext, device address, key and frame counter.
InitLora ==
    /\ InitQueue /\ queue = {}
    /\ InitPullers /\ InitApiIdle /\ InitHookIdle /\ InitNormIdle
    /\ InitDeliverIdle /\ InitStoreIdle /\ InitUtilIdle
    /\ lin \in {Fill(len, a) : len \in Lengths, a \in {0, 37, 255}}
    /\ laddr \in {<<1, 2, 3, 4>>, <<255, 0, 128, 7>>}
    /\ lkey \in {[j \in 1..BlockSize |-> j], [j \in 1..BlockSize |-> 255 - j]}
    /\ lseq \in {0, 1, 258, 16909060, 2147483647}
    /\ lpc = "in" /\ lblocks = <<>> /\ lout = <<>> /\ lback = <<>>

SpecLora == InitLora /\ [][NextLora]_vars

\* ---------------------------------------------------------- normalization

nonnormvars == <<queuevars, pullvars, apivars, hookvars, loravars,
                 delivervars, storevars, utilvars>>

\* const type = 'cra.cz'.
type == "cra.cz"

\* An optional string of a record or of the credentials is <<>> when it
\* is undefined and <<s>> when it is the string s; a string is the
\* sequence of its characters, the hex digits 0..15 and 16 for any
\* other character.  !x of the code is ~Truthy(x): undefined and the
\* empty string are falsy.
Truthy(x) == x # <<>> /\ x[1] # <<>>

\* Buffer.from(s, 'hex'): one byte for every two hex digits, up to the
\* first pair that is not two hex digits; a last single digit is dropped.
RECURSIVE HexDecode(_)
HexDecode(s) ==
    IF Len(s) < 2 \/ s[1] > 15 \/ s[2] > 15 THEN <<>>
    ELSE <<16 * s[1] + s[2]>> \o HexDecode(Tail(Tail(s)))

\* buf.toString('base64'): four characters (0..63, and 64 for `=`) for
\* every three bytes, the last group padded.
RECURSIVE Base64(_)
Base64(b) ==
    IF Len(b) = 0 THEN <<>>
    ELSE IF Len(b) = 1
      THEN <<b[1] \div 4, (b[1] % 4) * 16, 64, 64>>
    ELSE IF Len(b) = 2
      THEN <<b[1] \div 4, (b[1] % 4) * 16 + (b[2] \div 16),
             (b[2] % 16) * 4, 64>>
    ELSE <<b[1] \div 4, (b[1] % 4) * 16 + (b[2] \div 16),
           (b[2] % 16) * 4 + (b[3] \div 64), b[3] % 64>>
         \o Base64(SubSeq(b, 4, Len(b)))

\* A test that finds no credentials whatever is configured.
NoCredentials(cred) == FALSE

\* if (appskey && devaddr).
HasCredentials(cred) == Truthy(cred.appskey) /\ Truthy(cred.devaddr)

\* A string is the sequence of its characters. The address of a device,
\* one with a character more and one with a character less.
Eui16 ==
    <<"0", "0", "0", "4", "A", "3", "0", "B",
      "0", "0", "1", "C", "0", "5", "3", "0">>
Euis == {Eui16, Eui16 \o <<"7">>, SubSeq(Eui16, 1, 15)}

HexDigits ==
    {"0", "1", "2", "3", "4", "5", "6", "7", "8", "9",
     "A", "B", "C", "D", "E", "F"}

\* s.match(EUI_REGEX), /[0-9A-F]{16}/: sixteen characters of the class
\* in a row, anywhere in s.
EUI_REGEX(s) ==
    \E k \in 1..(Len(s) - 15) : \A j \in 0..15 : s[k + j] \in HexDigits

\* isCraMessage(arg) for an arg whose other members are as they must be.
isCraMessage(arg) == EUI_REGEX(arg.EUI)

\* The message processMessage gives to onMessage, but for received (the
\* time of the call) and origin (a copy of src); timestamp is the
\* instant src.ts names.
Message(src, data, encrypted) ==
    [id |-> <<type, src.ts, src.seqno>>,
     eui |-> src.EUI,
     timestamp |-> src.ts,
     data |-> Base64(data),
     encrypted |-> encrypted]

\* throw new Error(`Missing payload ...`).
Thrown == [error |-> "Missing payload"]

\* processMessage(src) of the cra.cz adapter, up to the call of
\* onMessage; a key or an address that is absent is <<>>, one that is
\* present is <<bytes>>.
processMessage(src, cred) ==
    IF ~Truthy(src.data) /\ Truthy(src.encdata)
      THEN LET ciphertext == HexDecode(src.encdata[1])
           IN  IF HasCredentials(cred)
                 THEN Message(src, decrypt(ciphertext, cred.devaddr[1],
                                           cred.appskey[1], src.fcnt), FALSE)
                 ELSE Message(src, ciphertext, TRUE)
    ELSE IF Truthy(src.data)
      THEN Message(src, HexDecode(src.data[1]), FALSE)
    ELSE Thrown

\* The strings data and encdata are taken from: empty, one byte, three
\* digits, three bytes, four bytes, a byte and a pair with a character
\* that is no hex digit.
HexStrings == {<<>>, <<0, 1>>, <<10, 11, 12>>, <<0, 1, 2, 3, 4, 5>>,
               <<15, 15, 0, 0, 10, 10, 1, 2>>, <<7, 15, 1, 16>>}

OptionalHex == {<<>>} \cup {<<s>> : s \in HexStrings}

\* The credentials of a device: none, the key only, the address only,
\* both.
Credentials ==
    [appskey : {<<>>, <<[j \in 1..BlockSize |-> j]>>},
     devaddr : {<<>>, <<(<<1, 2, 3, 4>>)>>}]

\* One call of processMessage.
Normalize ==
    /\ mpc = "called"
    /\ mout' = processMessage(msrc, mcred)
    /\ mpc' = IF processMessage(msrc, mcred) = Thrown THEN "thrown"
              ELSE "onMessage"
    /\ UNCHANGED <<msrc, mcred, nonnormvars>>

\* onMessage (QueueManager.push) settles and processMessage with it.
NormalizeDone(ok) ==
    /\ mpc = "onMessage"
    /\ mpc' = IF ok THEN "returned" ELSE "rejected"
    /\ UNCHANGED <<msrc, mcred, mout, nonnormvars>>

NextNorm == Normalize \/ \E ok \in BOOLEAN : NormalizeDone(ok)

\* One record of one device, with or without credentials.
InitNorm ==
    /\ InitQueue /\ queue = {}
    /\ InitPullers /\ InitApiIdle /\ InitHookIdle /\ InitLoraIdle
    /\ InitDeliverIdle /\ InitStoreIdle /\ InitUtilIdle
    /\ msrc \in [ts : {1}, seqno : {1}, EUI : {Eui16}, fcnt : {0, 258},
                  data : OptionalHex, encdata : OptionalHex]
    /\ mcred \in Credentials
    /\ mpc = "called" /\ mout = <<>>

SpecNorm == InitNorm /\ [][NextNorm]_vars

\* ---------------------------------------------------------------- delivery

\* args.networks: two networks of type cra.cz, each with a webhook and
\* with pull credentials, and one of type ttn.
Networks == [cra1 |-> "cra.cz", cra2 |-> "cra.cz", ttn1 |-> "ttn"]

\* The networks a router or the Pullers of an adapter keep: those of
\* its type.
NetworksOf(adapter) == {n \in DOMAIN Networks : Networks[n] = adapter}

\* A Puller whose callback names the message after its own network.
callbackOwnId(name, src, cred) ==
    [processMessage(src, cred) EXCEPT !.id = <<name, src.ts, src.seqno>>]

\* this.callback(m) of the Puller of network name: processMessage.
callback(name, src, cred) == processMessage(src, cred)

\* processMessage(network, src) of the ttn adapter: the message given to
\* onMessage, received_at being an instant.
ttnMessage(network, src) ==
    [id |-> <<network, src.received_at, src.f_cnt>>,
     eui |-> src.dev_eui,
     timestamp |-> src.received_at,
     data |-> src.frm_payload,
     encrypted |-> FALSE]

\* The records of cra.cz and of ttn the adapters get.
CraRecords ==
    [ts : {1, 2}, seqno : {1, 2}, EUI : {Eui16}, fcnt : {0},
     data : {<<>>}, encdata : {<<(<<0, 1, 2, 3, 4, 5>>)>>}]

TtnRecords ==
    [received_at : {1, 2}, f_cnt : {1, 2}, dev_eui : {Eui16},
     frm_payload : {<<0, 4, 8>>}]

\* The webhook of a cra.cz network gets a record that has passed
\* isCraMessage, or the Puller of the network fetches it; processMessage
\* makes the message it calls onMessage with.
DeliverCra(via, name, src) ==
    /\ Len(dlog) < MaxPush
    /\ name \in NetworksOf("cra.cz")
    /\ via = "webhook" => isCraMessage(src)
    /\ dlog' = Append(dlog,
                      [adapter |-> "cra.cz", via |-> via, net |-> name,
                       src |-> src,
                       msg |-> IF via = "puller"
                                 THEN callback(name, src, mcred)
                                 ELSE processMessage(src, mcred)])
    /\ UNCHANGED <<queuevars, pullvars, apivars, hookvars, loravars,
                   normvars, storevars, utilvars>>

\* The webhook of a ttn network gets a message.
DeliverTtn(name, src) ==
    /\ Len(dlog) < MaxPush
    /\ name \in NetworksOf("ttn")
    /\ dlog' = Append(dlog,
                      [adapter |-> "ttn", via |-> "webhook", net |-> name,
                       src |-> src, msg |-> ttnMessage(name, src)])
    /\ UNCHANGED <<queuevars, pullvars, apivars, hookvars, loravars,
                   normvars, storevars, utilvars>>

\* The id of the k-th message got, as a member of Msgs: the ids are
\* numbered in the order they first come.
IdOf(k) ==
    LET first == CHOOSE j \in 1..k :
                     /\ dlog[j].msg.id = dlog[k].msg.id
                     /\ \A i \in 1..(j - 1) : dlog[i].msg.id # dlog[k].msg.id
    IN  Cardinality({dlog[i].msg.id : i \in 1..first})

\* onMessage(msg) for the t-th message got: QueueManager.push.
DeliverPush(t) ==
    /\ t <= Len(dlog)
    /\ PushCall(t, IdOf(t))

NextDeliver ==
    \/ \E via \in {"webhook", "puller"}, name \in NetworksOf("cra.cz"),
          src \in CraRecords : DeliverCra(via, name, src)
    \/ \E name \in NetworksOf("ttn"), src \in TtnRecords :
          DeliverTtn(name, src)
    \/ \E t \in PushIds : DeliverPush(t)
    \/ \E t \in PushIds : PushSetSeen(t)
    \/ \E t \in PushIds : PushEnqueue(t)
    \/ \E t \in PushIds : PushEnqueueFail(t)

\* An empty database; the device has its credentials or has none.
InitDeliver ==
    /\ InitQueue /\ queue = {}
    /\ InitPullers /\ InitApiIdle /\ InitHookIdle /\ InitLoraIdle
    /\ InitStoreIdle /\ InitUtilIdle
    /\ msrc = <<>> /\ mpc = "none" /\ mout = <<>>
    /\ mcred \in {c \in Credentials : (c.appskey = <<>>) = (c.devaddr = <<>>)}
    /\ dlog = <<>>

SpecDeliver == InitDeliver /\ [][NextDeliver]_vars

\* The records the operators can send or return for devices of any
\* address.
CraEuiRecords ==
    [ts : {1}, seqno : {1, 2}, EUI : Euis, fcnt : {0},
     data : {<<>>}, encdata : {<<(<<0, 1, 2, 3, 4, 5>>)>>}]

TtnEuiRecords ==
    [received_at : {1}, f_cnt : {1, 2}, dev_eui : Euis,
     frm_payload : {<<0, 4, 8>>}]

NextEui ==
    \/ \E via \in {"webhook", "puller"}, name \in NetworksOf("cra.cz"),
          src \in CraEuiRecords : DeliverCra(via, name, src)
    \/ \E name \in NetworksOf("ttn"), src \in TtnEuiRecords :
          DeliverTtn(name, src)
    \/ \E t \in PushIds : DeliverPush(t)
    \/ \E t \in PushIds : PushSetSeen(t)
    \/ \E t \in PushIds : PushEnqueue(t)
    \/ \E t \in PushIds : PushEnqueueFail(t)

SpecEui == InitDeliver /\ [][NextEui]_vars

\* ------------------------------------------------------------ queue table

nonstorevars == <<queuevars, pullvars, apivars, hookvars, loravars,
                  normvars, delivervars, utilvars>>

\* The messages two calls of db.enqueue can carry under one id: they
\* differ in `received`, say.
Versions == {"first", "second"}

\* A table without the index: no insert finds its id taken.
no_index(table, id) == FALSE

\* CREATE UNIQUE INDEX queue_index ON queue (message_id), queueIndex ON
\* queue(messageId) in SQLite: an insert finds its id taken.
queue_index(table, id) == \E n \in 1..Len(table) : table[n].message_id = id

\* db.enqueue(msg): insert into queue (message_id, message).
Enqueue(id, v) ==
    /\ qcalls < MaxStoreCalls
    /\ qcalls' = qcalls + 1
    /\ IF queue_index(qtable, id)
         THEN /\ qtable' = qtable
              /\ qlast' = [op |-> "enqueue", message_id |-> id,
                           message |-> v, result |-> "rejected"]
         ELSE /\ qtable' = Append(qtable, [message_id |-> id, message |-> v])
              /\ qlast' = [op |-> "enqueue", message_id |-> id,
                           message |-> v, result |-> "ok"]
    /\ UNCHANGED nonstorevars

\* db.dequeue(msg): delete from queue where message_id=$1.
Dequeue(id) ==
    /\ qcalls < MaxStoreCalls
    /\ qcalls' = qcalls + 1
    /\ qtable' = SelectSeq(qtable, LAMBDA row : row.message_id # id)
    /\ qlast' = [op |-> "dequeue", message_id |-> id, message |-> "",
                 result |-> "ok"]
    /\ UNCHANGED nonstorevars

NextStore ==
    \/ \E id \in Msgs, v \in Versions : Enqueue(id, v)
    \/ \E id \in Msgs : Dequeue(id)

\* The calls the pushes and the passes of _flush make on the table, in
\* any order.
InitStore ==
    /\ InitQueue /\ queue = {}
    /\ InitPullers /\ InitApiIdle /\ InitHookIdle
    /\ InitLoraIdle /\ InitNormIdle /\ InitDeliverIdle /\ InitStoreIdle
    /\ InitUtilIdle

SpecStore == InitStore /\ [][NextStore]_vars

\* ------------------------------------------------------------ retry delay

\* Every variable but those of the timers, the lock and the backends.
nonutilvars == <<queuevars, pullvars, apivars, hookvars, loravars,
                 normvars, delivervars, storevars>>

nonsleepvars == <<nonutilvars, lockvars, backvars>>

\* The argument of sleep in the catch block of _flush: await sleep(5).
RetryDelay == 5

\* sleep(ms): setTimeout(resolve, ms), the promise resolves no sooner
\* than ms milliseconds after the call.
SleepOver(start, ms, now) == now >= start + ms

\* Promise.all has rejected and the catch block calls sleep(5).
CatchSleep ==
    /\ spc = "catch"
    /\ spc' = "sleep"
    /\ sstart' = snow
    /\ UNCHANGED <<snow, nonsleepvars>>

\* Time passes while the catch block awaits sleep.
ClockTick(d) ==
    /\ spc = "sleep"
    /\ snow + d <= MaxClock
    /\ snow' = snow + d
    /\ UNCHANGED <<sstart, spc, nonsleepvars>>

\* The timer fires: sleep resolves and the catch block calls flush().
SleepDone ==
    /\ spc = "sleep"
    /\ SleepOver(sstart, RetryDelay, snow)
    /\ spc' = "flush"
    /\ UNCHANGED <<snow, sstart, nonsleepvars>>

NextSleep ==
    \/ CatchSleep
    \/ \E d \in {1, 1000} : ClockTick(d)
    \/ SleepDone

\* A pass of _flush has just failed.
InitSleep ==
    /\ InitQueue /\ queue = {}
    /\ InitPullers /\ InitApiIdle /\ InitHookIdle
    /\ InitLoraIdle /\ InitNormIdle /\ InitDeliverIdle /\ InitStoreIdle
    /\ InitLockIdle /\ InitBackIdle
    /\ snow = 0 /\ sstart = 0 /\ spc = "catch"

SpecSleep == InitSleep /\ [][NextSleep]_vars

\* ------------------------------------------------------------------ Lock

nonlockvars == <<nonutilvars, sleepvars, backvars>>

\* acquire(): the executor of the promise runs at once. A free lock is
\* taken and the promise resolves; otherwise try_acquire is registered
\* for 'release'.
Acquire(c) ==
    /\ lkpc[c] = "idle"
    /\ IF ~locked
       THEN /\ locked' = TRUE
            /\ lkpc' = [lkpc EXCEPT ![c] = "holding"]
            /\ listeners' = listeners
       ELSE /\ locked' = locked
            /\ lkpc' = [lkpc EXCEPT ![c] = "waiting"]
            /\ listeners' = Append(listeners, c)
    /\ UNCHANGED <<emits, woken, nonlockvars>>

\* A release() that emits nothing.
ReleaseSilent(c) ==
    /\ lkpc[c] = "holding"
    /\ emits < MaxEmits
    /\ locked' = FALSE
    /\ lkpc' = [lkpc EXCEPT ![c] = "idle"]
    /\ woken' = [woken EXCEPT ![c] = FALSE]
    /\ UNCHANGED <<emits, listeners, nonlockvars>>

\* release() by the caller whose acquire() has resolved: the lock is free
\* at once, the event is emitted later, from setImmediate.
Release(c) ==
    /\ lkpc[c] = "holding"
    /\ emits < MaxEmits
    /\ locked' = FALSE
    /\ emits' = emits + 1
    /\ lkpc' = [lkpc EXCEPT ![c] = "idle"]
    /\ woken' = [woken EXCEPT ![c] = FALSE]
    /\ UNCHANGED <<listeners, nonlockvars>>

\* The setImmediate callback runs: emit('release') calls the listeners in
\* the order of their registration. The first try_acquire that finds the
\* lock free takes it, removes itself and resolves; the others find it
\* taken and stay.
Emit ==
    /\ emits > 0
    /\ emits' = emits - 1
    /\ IF ~locked /\ listeners # <<>>
       THEN /\ locked' = TRUE
            /\ lkpc' = [lkpc EXCEPT ![Head(listeners)] = "holding"]
            /\ woken' = [woken EXCEPT ![Head(listeners)] = TRUE]
            /\ listeners' = Tail(listeners)
       ELSE UNCHANGED <<locked, lkpc, woken, listeners>>
    /\ UNCHANGED nonlockvars

NextLock ==
    \/ \E c \in Callers : Acquire(c)
    \/ \E c \in Callers : Release(c)
    \/ Emit

InitLock ==
    /\ InitQueue /\ queue = {}
    /\ InitPullers /\ InitApiIdle /\ InitHookIdle
    /\ InitLoraIdle /\ InitNormIdle /\ InitDeliverIdle /\ InitStoreIdle
    /\ InitSleepIdle /\ InitLockIdle /\ InitBackIdle

\* The event loop runs every setImmediate callback.
SpecLock == InitLock /\ [][NextLock]_vars /\ WF_vars(Emit)

\* ------------------------------------------------------- the two backends

nonbackvars == <<nonutilvars, sleepvars, lockvars>>

\* The arguments of the calls. A message is an object, the sequence of
\* its members <<key, value>> in the order of their creation; the
\* optional member encrypted can be undefined.
BIds == {"m1", "m2"}
BNames == {"timestamp"}
BValues == {"undefined", "t1", "t2"}
Object(i, e, first) ==
    IF first = "id" THEN <<(<<"id", i>>), (<<"encrypted", e>>)>>
    ELSE <<(<<"encrypted", e>>), (<<"id", i>>)>>
BMessages ==
    {Object(i, e, first) :
       i \in BIds, e \in {"undefined", "true"}, first \in {"id", "encrypted"}}

\* msg.id
IdMember(msg) == (CHOOSE m \in {msg[k] : k \in DOMAIN msg} : m[1] = "id")[2]

IsDefined(member) == member[2] # "undefined"

\* JSON.stringify(msg): the text of an object, its members in order but
\* for the undefined ones. node-postgres sends an object parameter as
\* this text.
Stringify(msg) == SelectSeq(msg, IsDefined)

\* JSON.parse(text), and the object a jsonb column gives back: the
\* members of the text, whose order jsonb does not keep. Compared member
\* by member.
ObjectOf(text) == {text[k] : k \in DOMAIN text}

\* A value read from the column attrs.value, returned as it is.
NullIsNull(v) == v

\* v === null ? undefined : v
NullToUndefined(v) == IF v = "null" THEN "undefined" ELSE v

\* The rows of a table whose indexed column holds key (a unique index:
\* one at most).
RowsOf(table, key) == {r \in table : r[1] = key}

\* SQLiteDatabase: the call op(arg) on the tables db; the tables after it and
\* what it returns ("error": the statement throws).
SQLiteDatabase(db, op, arg) ==
    CASE op = "isSeen" ->
           [db |-> db, result |-> (arg \in db.seen)]
      [] op = "setSeen" ->
           IF arg \in db.seen
           THEN [db |-> db, result |-> "error"]
           ELSE [db |-> [db EXCEPT !.seen = @ \cup {arg}],
                 result |-> "undefined"]
      [] op = "get" ->
           [db |-> db,
            result |-> IF RowsOf(db.attrs, arg) = {} THEN "undefined"
                       ELSE NullToUndefined(
                              (CHOOSE r \in RowsOf(db.attrs, arg) : TRUE)[2])]
      [] op = "set" ->
           [db |-> [db EXCEPT !.attrs =
                      (@ \ RowsOf(@, arg[1])) \cup
                      {<<arg[1], IF arg[2] = "undefined" THEN "null"
                                      ELSE arg[2]>>}],
            result |-> "undefined"]
      [] op = "enqueue" ->
           IF RowsOf(db.queue, IdMember(arg)) # {}
           THEN [db |-> db, result |-> "error"]
           ELSE [db |-> [db EXCEPT !.queue =
                           @ \cup {<<IdMember(arg), Stringify(arg)>>}],
                 result |-> "undefined"]
      [] op = "dequeue" ->
           [db |-> [db EXCEPT !.queue = @ \ RowsOf(@, IdMember(arg))],
            result |-> "undefined"]
      [] op = "getMessages" ->
           [db |-> db, result |-> {ObjectOf(r[2]) : r \in db.queue}]

\* PostgresSQLDatabase: the same for the queries it sends; the column
\* message is jsonb, a parameter that is undefined is sent as null.
PostgresSQLDatabase(db, op, arg) ==
    CASE op = "isSeen" ->
           [db |-> db,
            result |-> Cardinality({r \in db.seen : r = arg}) # 0]
      [] op = "setSeen" ->
           IF arg \in db.seen
           THEN [db |-> db, result |-> "error"]
           ELSE [db |-> [db EXCEPT !.seen = @ \cup {arg}],
                 result |-> "undefined"]
      [] op = "get" ->
           [db |-> db,
            result |->
              IF Cardinality(RowsOf(db.attrs, arg)) # 1 THEN "undefined"
              ELSE LET value == (CHOOSE r \in RowsOf(db.attrs, arg) : TRUE)[2]
                   IN  IF value \in {"undefined", "null"} THEN "undefined"
                       ELSE value]
      [] op = "set" ->
           LET value == IF arg[2] = "undefined" THEN "null" ELSE arg[2]
           IN  [db |-> [db EXCEPT !.attrs =
                          IF RowsOf(@, arg[1]) = {}
                          THEN @ \cup {<<arg[1], value>>}
                          ELSE {IF r[1] = arg[1] THEN <<r[1], value>> ELSE r :
                                  r \in @}],
                result |-> "undefined"]
      [] op = "enqueue" ->
           IF RowsOf(db.queue, IdMember(arg)) # {}
           THEN [db |-> db, result |-> "error"]
           ELSE [db |-> [db EXCEPT !.queue =
                           @ \cup {<<IdMember(arg),
                                     ObjectOf(Stringify(arg))>>}],
                 result |-> "undefined"]
      [] op = "dequeue" ->
           [db |-> [db EXCEPT !.queue = @ \ RowsOf(@, IdMember(arg))],
            result |-> "undefined"]
      [] op = "getMessages" ->
           [db |-> db, result |-> {r[2] : r \in db.queue}]

\* What the calls so far call for: setSeen and enqueue fail on an id that
\* is marked or queued, get gives the value last set, getMessages the
\* messages queued.
Expected(c, op, arg) ==
    CASE op = "isSeen" -> arg \in c.seen
      [] op = "setSeen" ->
           IF arg \in c.seen THEN "error" ELSE "undefined"
      [] op = "get" ->
           IF RowsOf(c.attrs, arg) = {} THEN "undefined"
           ELSE (CHOOSE r \in RowsOf(c.attrs, arg) : TRUE)[2]
      [] op = "enqueue" ->
           IF RowsOf(c.queue, IdMember(arg)) # {} THEN "error"
           ELSE "undefined"
      [] op = "getMessages" ->
           {{m \in ObjectOf(r[2]) : IsDefined(m)} : r \in c.queue}
      [] OTHER -> "undefined"

Recorded(c, op, arg) ==
    CASE op = "setSeen" -> [c EXCEPT !.seen = @ \cup {arg}]
      [] op = "set" ->
           [c EXCEPT !.attrs = (@ \ RowsOf(@, arg[1])) \cup {arg}]
      [] op = "enqueue" ->
           IF RowsOf(c.queue, IdMember(arg)) # {} THEN c
           ELSE [c EXCEPT !.queue = @ \cup {<<IdMember(arg), arg>>}]
      [] op = "dequeue" ->
           [c EXCEPT !.queue = @ \ RowsOf(@, IdMember(arg))]
      [] OTHER -> c

\* One call of the Database interface, made on both backends.
Call(op, arg) ==
    /\ sqlite' = SQLiteDatabase(sqlite, op, arg).db
    /\ postgres' = PostgresSQLDatabase(postgres, op, arg).db
    /\ contract' = Recorded(contract, op, arg)
    /\ blast' = [op |-> op, arg |-> arg,
                 sqlite |-> SQLiteDatabase(sqlite, op, arg).result,
                 postgres |-> PostgresSQLDatabase(postgres, op, arg).result,
                 expected |-> Expected(contract, op, arg)]
    /\ UNCHANGED nonbackvars

NextBackends ==
    \/ \E id \in BIds : Call("isSeen", id)
    \/ \E id \in BIds : Call("setSeen", id)
    \/ \E name \in BNames : Call("get", name)
    \/ \E name \in BNames, value \in BValues :
          Call("set", <<name, value>>)
    \/ \E msg \in BMessages : Call("enqueue", msg)
    \/ \E msg \in BMessages : Call("dequeue", msg)
    \/ Call("getMessages", "none")

InitBackends ==
    /\ InitQueue /\ queue = {}
    /\ InitPullers /\ InitApiIdle /\ InitHookIdle
    /\ InitLoraIdle /\ InitNormIdle /\ InitDeliverIdle /\ InitStoreIdle
    /\ InitSleepIdle /\ InitLockIdle /\ InitBackIdle

SpecBackends == InitBackends /\ [][NextBackends]_vars

\* ------------------------------------------------------------ properties

\* The callbacks of message m that await the sink or the dequeue.
SinkInFlight(m) ==
    orphSink[m] + Cardinality({s \in Slots : task[s][m] = "sink"})

InFlight(m) ==
    SinkInFlight(m) + orphDeq[m] + Cardinality({s \in Slots : task[s][m] = "deq"})

\* push(m); push(m): every push() call was made with message m and has
\* settled, and one of them enqueued m.
PushedTwice(m) ==
    /\ \A t \in PushIds : pmsg[t] = m /\ pc[t] \in {"ret", "noop", "err"}
    /\ \E t \in PushIds : pc[t] = "ret"

\* C1: after push(m); push(m), with a sink that never fails for m (and
\* no failing dequeue of m), the sink is invoked for m at most once,
\* whatever happens to the deliveries of the other queued messages.
C1_SinkInvokedOnce ==
    \A m \in Msgs : PushedTwice(m) /\ m \notin failed => calls[m] <= 1

\* A push() of m is between its insert into seen and its insert into queue.
Enqueuing(m) == \E t \in PushIds : pc[t] = "enqueue" /\ pmsg[t] = m

\* C2: with no failure of the sink or the storage, whatever the crashes,
\* a message for which a push() returned without error is queued (or
\* about to be, by a push in progress) or was delivered: it is never in a
\* state from which no delivery can follow.
C2_PushedIsQueuedOrDelivered ==
    \A t \in PushIds : nfail = 0 /\ pc[t] \in {"ret", "noop"} =>
        pmsg[t] \in queue \/ pmsg[t] \in delivered \/ Enqueuing(pmsg[t])

\* C3: a row leaves the queue only when a sink invocation for its message
\* has completed successfully.
C3_DequeueOnlyAfterDelivery ==
    [][\A m \in queue : m \notin queue' => m \in delivered]_vars

C3_Witness ==
    \E m \in Msgs : m \in seen /\ m \notin queue /\ m \in delivered

\* C4: with no failure of the sink or the storage, whatever the crashes,
\* every id in the seen set is in the outbox or was delivered, a push()
\* that is about to enqueue it aside.
C4_SeenIsQueuedOrDelivered ==
    \A m \in seen :
        nfail = 0 => m \in queue \/ m \in delivered \/ Enqueuing(m)

\* C5: at most one execution of _flush is active at any time.
C5_OnePassAtATime == Cardinality(Active) <= 1

C5_Witness == Active # {} /\ pending >= 1

\* C6 as stated: while a pass is running at most one further pass waits.
C6_AtMostOnePending == Active # {} => pending <= 1

\* A step in which flush() is called: by setSink, by a direct call, by a
\* push() that has enqueued, or by the catch block of _flush.
FlushRequested ==
    \/ sink' # sink
    \/ nflush' # nflush
    \/ \E t \in PushIds : pc[t] = "enqueue" /\ pc'[t] = "ret"
    \/ \E s \in Slots : pst[s] = "sleep" /\ pst'[s] = "free"

\* C6 as amended: every flush request chains exactly one more pass, so k
\* requests made while a pass runs give k further passes; a waiting pass
\* leaves the chain only by starting, one at a time.
C6_EveryRequestChainsAPass ==
    [][/\ FlushRequested => pending' = pending + 1
       /\ pending' < pending =>
            /\ pending' = pending - 1
            /\ Active = {}]_vars

C6_Witness == Active # {} /\ pending >= 2

\* C7: no two sink deliveries of the same message are in flight at once.
C7_NoOverlappingDelivery == \A m \in Msgs : SinkInFlight(m) <= 1

\* C8: a message the sink was invoked for stays in the outbox with no
\* delivery of it in progress only if its own delivery failed: a failure
\* of another message of the pass does not hold it back.
C8_HeldOnlyByOwnFailure ==
    \A m \in queue : calls[m] > 0 /\ InFlight(m) = 0 => m \in failed

\* One pass over three messages: the delivery of A failed and the pass
\* sleeps in its catch block; B and C are delivered and dequeued already.
C8_Witness ==
    \E s \in Slots, a \in Msgs :
        /\ pst[s] = "sleep"
        /\ queue = {a} /\ a \in failed
        /\ Cardinality(Msgs \ {a}) >= 2
        /\ \A m \in Msgs \ {a} : m \in delivered /\ m \notin failed
        /\ \A m \in Msgs : calls[m] = 1

\* C9: a queued message, once a sink is installed, eventually leaves the
\* outbox: after every failure another pass attempts it, as many times as
\* the sink or the storage fails.
C9_RetriedUntilDelivered ==
    \A m \in Msgs : (sink /\ m \in queue) ~> (m \notin queue)

\* A message delivered at its third attempt, after two failures.
C9_Witness ==
    \E m \in Msgs :
        /\ m \in failed /\ m \in delivered /\ m \notin queue
        /\ calls[m] >= 3

\* C10: the sink is invoked only for messages that are in the outbox at
\* that moment.
C10_NoCallAfterDequeue ==
    [][\A m \in Msgs : calls'[m] > calls[m] => m \in queue]_vars

\* C11: while no sink is installed no step invokes the sink or removes a
\* row of the outbox or of the seen set, and a step that takes a pass off
\* the chain changes nothing else: the pass reads nothing, holds no slot
\* and leaves no retry behind; so a message pushed with no sink
\* installed stays queued.
C11_NoSinkPassIsNoOp ==
    [][~sink =>
         /\ calls' = calls
         /\ queue \subseteq queue' /\ seen \subseteq seen'
         /\ pending' < pending =>
              /\ pending' = pending - 1
              /\ UNCHANGED <<dbvars, sink, pst, batch, task, orphSink,
                             orphDeq, pushvars, envvars, histvars>>]_vars

\* The pass a push() requested has run with no sink installed: the pushed
\* message is queued, nothing is active or waiting on the chain.
C11_Witness ==
    /\ ~sink /\ pending = 0 /\ Active = {}
    /\ \E t \in PushIds : pc[t] = "ret" /\ pmsg[t] \in queue
    /\ calls = Zero

\* C12: once a sink is installed, every message that is in the outbox
\* is eventually passed to it, with no push() and no flush() call needed
\* after the setSink: the pass setSink requests delivers what was pushed
\* or left queued before.
C12_LateSinkDelivers ==
    \A m \in Msgs : (sink /\ m \in queue) ~> (calls[m] > 0)

\* The sink is installed and was invoked for a pushed message and for a
\* message the previous run left queued; no flush() call was made.
C12_Witness ==
    /\ sink /\ nflush = 0
    /\ \E t \in PushIds : pc[t] = "ret" /\ calls[pmsg[t]] >= 1
    /\ \E m \in Msgs \ PushMsgs : m \in seen /\ calls[m] >= 1

\* C13: a step writes a checkpoint only as the last statement of a tick
\* in which nothing failed: the devices were listed, every device of the
\* list was fetched, every callback of every fetched record resolved; and
\* the value written is the tick's now. A tick with a failed fetch or a
\* rejected callback, or one cut short by a crash, writes nothing.
C13_CheckpointOnlyAfterAllHandedOff ==
    [][\A k \in Keys : attrs'[k] # attrs[k] =>
         \E p \in Pullers :
            /\ ppc[p] = "set" /\ ppc'[p] = "timer"
            /\ k = CheckpointKey(p) /\ attrs'[k] = pnow[p]
            /\ ~pbad[p]
            /\ pdevs[p] >= 0 /\ pdev[p] = pdevs[p]
            /\ pdone[p] = pgot[p]]_vars

\* A tick that fetched records of two devices has written its now.
C13_Witness ==
    \E p \in Pullers :
        /\ ppc[p] = "timer" /\ pnow[p] > 0 /\ attrs[CheckpointKey(p)] = pnow[p]
        /\ pdevs[p] = 2 /\ pgot[p] >= 2 /\ pdone[p] = pgot[p]

\* C14: the window of a tick starts at the checkpoint the same adapter
\* wrote in its own last successful tick (at FROM_EPOCH before it has
\* written one), whatever the ticks of the other adapters did.
C14_OwnCheckpoint ==
    \A p \in Pullers :
        ppc[p] \in {"devices", "messages", "callbacks", "set"} =>
            psince[p] = IF pown[p] = 0 THEN FROM_EPOCH ELSE pown[p]

\* C15: every Puller has a tick in progress or its next tick scheduled,
\* whatever failed in the ticks before.
C15_NextTickScheduled == \A p \in Pullers : ppc[p] # "stopped"

\* The results a requestJSONAuth call can have seen, in order: one send;
\* or a send rejected with 401, then the login, then the second send.
AuthLogs ==
    {<<>>, <<"ok">>, <<"err">>, <<"401">>, <<"401", "nologin">>,
     <<"401", "login">>, <<"401", "login", "ok">>,
     <<"401", "login", "401">>, <<"401", "login", "err">>}

\* The logs of a call that has thrown.
ThrownLogs ==
    {<<"err">>, <<"401", "nologin">>, <<"401", "login", "401">>,
     <<"401", "login", "err">>}

\* C16: one requestJSONAuth call sends the request at most twice and logs
\* in at most once, and only after a first send rejected with 401; the
\* first send failing otherwise, the login failing, or the second send
\* failing (with 401 too) makes the call throw with nothing sent after.
C16_ReloginOnce ==
    /\ alog \in AuthLogs
    /\ rpc = "send1" => alog = <<>>
    /\ rpc = "login" => alog = <<"401">>
    /\ rpc = "send2" => alog = <<"401", "login">>
    /\ alog \in ThrownLogs <=> apc = "failed"
    /\ apc = "failed" => rpc = "none"

\* A call that was rejected with 401, logged in and got its page.
C16_Witness == rpc = "ret" /\ alog = <<"401", "login", "ok">> /\ token

CeilDiv(a, b) == (a + b - 1) \div b

\* The sub-windows a span needs: one per day_limit days begun, one at
\* least.
Windows(span) ==
    IF span = 0 THEN 1 ELSE CeilDiv(span, day_limit * Day)

\* C17: the first sub-window starts at from; a later one starts one tick
\* past the end of the one before; every sub-window ends by to and
\* spans day_limit days at most; when getMessages returns the last
\* sub-window has ended at to and their number is the span over
\* day_limit days, rounded up, 1 at least: 4 for a span of 95 days.
C17_DateWindows ==
    apc \in {"req", "done"} =>
        /\ nwin = 1 => wfrom = afrom /\ prevEnd = -1
        /\ nwin > 1 => wfrom = prevEnd + 1
        /\ wfrom <= deadline /\ deadline <= ato
        /\ deadline - wfrom <= day_limit * Day
        /\ nwin <= Windows(ato - afrom)
        /\ apc = "done" =>
              /\ deadline = ato
              /\ nwin = Windows(ato - afrom)
              /\ ato - afrom = 95 * Day => nwin = 4

\* getMessages has returned from a span of 95 days.
C17_Witness ==
    apc = "done" /\ ato - afrom = 95 * Day /\ nwin = 4 /\ afrom > 0

\* C18: in a sub-window every request asks for the records from the
\* position the pages before it ended at, all of them full pages; no
\* more records are received than the sub-window holds; a new
\* sub-window starts, and getMessages returns, only with every record of
\* the sub-windows before received once.
C18_OffsetPagination ==
    /\ apc = "req" =>
          /\ offset = wgot
          /\ offset % message_limit = 0
          /\ wgot <= wrecs
          /\ nmsg = srv - wrecs + wgot
    /\ apc = "done" => nmsg = srv /\ wgot = wrecs

\* getMessages has returned after a sub-window of three pages.
C18_Witness ==
    /\ apc = "done" /\ nwin = 1 /\ ncont = 2
    /\ offset = 2 * message_limit /\ nmsg > offset

\* C19 as stated: a span of 95 days holding 2500 records takes 4
\* requests with offset 0 and 3 with an offset above 0.
C19_FourWindowsThreeContinuations ==
    apc = "done" /\ ato - afrom = 95 * Day /\ nmsg = 2500 =>
        nwin = 4 /\ ncont = 3

\* C19 as amended: such a call takes 4 requests with offset 0 and one
\* request more for every full page received: 2 at most.
C19_FourWindowsFullPageContinuations ==
    apc = "done" /\ ato - afrom = 95 * Day /\ nmsg = 2500 =>
        nwin = 4 /\ ncont = nfull /\ ncont <= 2

\* All 2500 records lie in one sub-window of the 95 days.
C19_Witness ==
    /\ apc = "done" /\ ato - afrom = 95 * Day /\ nmsg = 2500
    /\ nwin = 4 /\ ncont = 2 /\ wrecs = 0

\* C20: a request to a network with a secret whose Authorization header
\* is missing or fails the test is answered 401, and no step reads,
\* parses or inspects its body, nor is processMessage called for it.
C20_RejectedBeforeParsing ==
    hnet = "secret" /\ ~HeaderMatches(hadapter, hheader) =>
        /\ hsteps = {}
        /\ hpc = "sent" => hstatus = 401

\* The request passes the lookup of the network and the test of the
\* Authorization header.
Authorized ==
    /\ hnet # "unknown"
    /\ hnet = "secret" => HeaderMatches(hadapter, hheader)

\* C21: an authorized cra.cz webhook request whose body is the ping is
\* answered 200 with an empty body; the envelope is not validated, nothing
\* is normalized and QueueManager.push is not called, so that the seen
\* set and the outbox stay as they were.
C21_PingIsNoOp ==
    hadapter = "cra.cz" /\ hbody = "ping" /\ Authorized =>
        /\ hsteps \subseteq {"json", "ping"}
        /\ hpc # "process"
        /\ hpc = "sent" => hstatus = 200 /\ hreply = "empty"
        /\ seen = {} /\ queue = {}

C21_Witness ==
    /\ hadapter = "cra.cz" /\ hbody = "ping" /\ hnet = "secret"
    /\ hheader = "secret" /\ hpc = "sent" /\ hstatus = 200
    /\ "ping" \in hsteps

\* C22: a POST to a path that names no configured network of the
\* adapter's type is answered 404 whatever its headers and body, and
\* reaches neither the header test nor a check of the body nor
\* processMessage.
C22_UnknownNetworkIs404 ==
    hnet = "unknown" =>
        /\ hsteps \subseteq {"json"}
        /\ hpc # "process"
        /\ hpc = "sent" => hstatus = 404

\* C23: for cra.cz and for ttn, an authorized request whose body is
\* neither the ping (of cra.cz) nor a well-formed message of the operator
\* is answered 400 and onMessage is not called for it; no body makes the
\* answer a 5xx.
C23_BadBodyIs400 ==
    /\ Authorized /\ hbody # "msg" /\ ~(hadapter = "cra.cz" /\ hbody = "ping")
         => /\ "push" \notin hsteps
            /\ hpc = "sent" => hstatus = 400
    /\ hbody # "msg" => hstatus < 500

\* C27: the counter block decrypt gives the cipher for the k-th block of
\* sixteen bytes is 0x01, five zero bytes, the four bytes of the device
\* address in reverse, the four bytes of the frame counter from the
\* lowest, a zero byte, and k & 0xFF.
C27_CounterBlock ==
    \A k \in 1..Len(lblocks) :
        lblocks[k] = <<1, 0, 0, 0, 0, 0,
                       laddr[4], laddr[3], laddr[2], laddr[1],
                       lseq % 256, (lseq \div 256) % 256,
                       (lseq \div 65536) % 256, (lseq \div 16777216) % 256,
                       0, k % 256>>

\* C28: decrypt returns as many bytes as it is given, and decrypt of
\* what decrypt returned, with the same address, key and counter, is the
\* bytes first given, for the lengths 1, 15, 16, 17 and 4096.
C28_RoundTrip ==
    /\ lpc \in {"out", "back"} => Len(lout) = Len(lin)
    /\ lpc = "back" => Len(lback) = Len(lin) /\ lback = lin

C28_Witness ==
    /\ lpc = "back" /\ Len(lin) = BlockSize + 1
    /\ lback = lin /\ lout # lin /\ lout[BlockSize + 1] # lin[BlockSize + 1]

\* C24: the message a cra.cz record normalizes to has encrypted = TRUE
\* exactly when the record carries ciphertext (encdata and no data) and
\* the appskey or the devaddr of its EUI is not configured, and data is
\* then the base64 of the ciphertext as it came; otherwise encrypted is
\* FALSE; and no record with a payload is rejected for want of a key.
C24_EncryptedFlag ==
    LET cipher == ~Truthy(msrc.data) /\ Truthy(msrc.encdata)
        nokey == mcred.appskey = <<>> \/ mcred.devaddr = <<>>
    IN  mpc \notin {"none", "called"} =>
          /\ (Truthy(msrc.data) \/ Truthy(msrc.encdata)) => mpc # "thrown"
          /\ mpc # "thrown" =>
                /\ mout.encrypted = (cipher /\ nokey)
                /\ mout.encrypted =>
                      mout.data = Base64(HexDecode(msrc.encdata[1]))

C24_Witness ==
    /\ mpc = "returned" /\ mout.encrypted
    /\ mcred.appskey # <<>> /\ mcred.devaddr = <<>>
    /\ msrc.encdata = <<(<<15, 15, 0, 0, 10, 10, 1, 2>>)>>
    /\ mout.data = <<63, 48, 2, 42, 4, 32, 64, 64>>

\* What the operator and the configuration tell two records apart by:
\* the network, the server's timestamp and the sequence number.
KeyOf(d) ==
    IF d.adapter = "ttn" THEN <<d.net, d.src.received_at, d.src.f_cnt>>
    ELSE <<d.net, d.src.ts, d.src.seqno>>

\* C25: two records that differ in the configured network they came
\* through, in the server's timestamp or in the sequence number never
\* normalize to the same message id; two configured cra.cz networks
\* with the same ts and seqno are such records.
C25_IdsUnique ==
    \A i, j \in 1..Len(dlog) :
        KeyOf(dlog[i]) # KeyOf(dlog[j]) => dlog[i].msg.id # dlog[j].msg.id

\* The push() calls for the record of the k-th delivery that have put
\* it in the queue.
Enqueued(k) ==
    {t \in PushIds : /\ t <= Len(dlog)
                     /\ dlog[t].adapter = dlog[k].adapter
                     /\ dlog[t].src = dlog[k].src
                     /\ pc[t] = "ret"}

\* C26: a cra.cz record normalizes to the same id, eui, timestamp, data
\* and encrypted flag whether the webhook or the Puller got it, and when
\* both get it, in either order or at once, it is enqueued at most once.
C26_SameOverBothPaths ==
    \A i, j \in 1..Len(dlog) :
        /\ dlog[i].adapter = "cra.cz" /\ dlog[j].adapter = "cra.cz"
        /\ dlog[i].src = dlog[j].src
        => /\ dlog[i].msg = dlog[j].msg
           /\ Cardinality(Enqueued(i)) <= 1

C26_Witness ==
    /\ Len(dlog) = 2
    /\ dlog[1].via = "puller" /\ dlog[2].via = "webhook"
    /\ dlog[1].net = dlog[2].net /\ dlog[1].src = dlog[2].src
    /\ pc[2] = "ret" /\ pc[1] = "err"

\* C30: the seen set only grows, whatever is flushed, delivered or
\* dequeued and across restarts, and a push of an id that is seen when
\* push asks is a no-op: it changes neither the seen set nor the queue,
\* requests no flush, and does nothing afterwards.
C30_SeenForever ==
    [][/\ seen \subseteq seen'
       /\ \A t \in PushIds :
            /\ pc[t] = "idle" /\ pc'[t] # "idle" /\ pmsg'[t] \in seen
                 => /\ pc'[t] = "noop"
                    /\ seen' = seen /\ queue' = queue /\ pending' = pending
            /\ pc[t] = "noop" => pc'[t] = "noop"]_vars

\* After a restart, a push of an id that was delivered and dequeued
\* before it has returned without doing anything.
C30_Witness ==
    \E t \in PushIds :
        /\ pc[t] = "noop" /\ ncrash = 1
        /\ pmsg[t] \in seen /\ pmsg[t] \in delivered /\ pmsg[t] \notin queue

\* C29: the queue holds at most one row for a message id whatever calls
\* are made in whatever order, and an enqueue of an id that has a row is
\* rejected and leaves the table, that row included, as it was.
C29_OneRowPerId ==
    [][/\ \A i, j \in 1..Len(qtable') :
            qtable'[i].message_id = qtable'[j].message_id => i = j
       /\ qcalls' # qcalls /\ qlast'.op = "enqueue"
            /\ (\E n \in 1..Len(qtable) :
                   qtable[n].message_id = qlast'.message_id)
            => qlast'.result = "rejected" /\ qtable' = qtable]_vars

\* A second message with the id of a queued one has been rejected.
C29_Witness ==
    /\ qlast # <<>> /\ qlast.op = "enqueue" /\ qlast.result = "rejected"
    /\ qlast.message = "second"
    /\ \E n \in 1..Len(qtable) :
          qtable[n] = [message_id |-> qlast.message_id, message |-> "first"]

\* C33: after a pass in which a delivery failed, the catch block calls
\* flush() only when 5000 ms have passed since it was entered.
C33_RetryAfterFiveSeconds == spc = "flush" => snow - sstart >= 5000

\* C34: a push(m) that failed with an error does not leave m marked seen
\* and out of the queue: m is then not seen, or queued, or delivered, or
\* being enqueued by another push, so that a later push(m) can enqueue it.
C34_FailedPushLeavesNoMark ==
    \A t \in PushIds :
        pc[t] = "err" =>
            \/ pmsg[t] \notin seen
            \/ pmsg[t] \in queue \/ pmsg[t] \in delivered
            \/ Enqueuing(pmsg[t])

\* C35: of two push calls for one id that interleave at their storage
\* awaits, with no failure of the storage, one enqueues the message and
\* the other returns as a no-op: neither rejects.
C35_ConcurrentPushNoError ==
    \A t \in PushIds : nfail = 0 => pc[t] # "err"

\* C36: `running` is never rejected: whatever failed before (the read of
\* the queue, the sink, the dequeue), every pass that a flush() request
\* has chained is executed, every call that is made settling.
C36_ChainNeverBreaks == (pending > 0) ~> (pending = 0)

\* After two failures, one of them of the read of the queue, a further
\* pass has started and has read the queue.
C36_Witness ==
    /\ nfail = MaxFails /\ failed # {}
    /\ \E s \in Slots : pst[s] = "got"

\* A deployment with one pull network: the only Puller of the process.
Single == 1

NextPullOne ==
    \/ FetchStart(Single)
    \/ \E ok \in BOOLEAN : GetDone(Single, ok)
    \/ \E ok \in BOOLEAN, n \in 0..NDev : DevicesDone(Single, ok, n)
    \/ \E ok \in BOOLEAN, n \in 0..MaxRecs : MessagesDone(Single, ok, n)
    \/ \E ok \in BOOLEAN : CallbackDone(Single, ok)
    \/ OrphanCallbackDone(Single)
    \/ \E ok \in BOOLEAN : SetDone(Single, ok)
    \/ PullCrash

SpecPullOne == InitPull /\ [][NextPullOne]_vars

\* C37: the next tick of a Puller is scheduled only when the current one
\* has finished, all its callbacks settled: while the timer of a Puller is
\* pending none of its callbacks is still in progress.
C37_TicksNeverOverlap ==
    ppc[Single] = "timer" => porph[Single] = 0

\* C38: the window of every tick of the Puller starts at the end of its
\* most recent successful tick (at FROM_EPOCH when there is none, also
\* after a restart) and ends at the tick's own start, and every instant
\* between FROM_EPOCH and the end of the latest successful tick lies in
\* the window of some successful tick.
C38_NoGap ==
    /\ ppc[Single] \in {"devices", "messages", "callbacks", "set"} =>
          /\ psince[Single] = IF pown[Single] = 0 THEN FROM_EPOCH
                               ELSE pown[Single]
          /\ pnow[Single] >= psince[Single]
    /\ pown[Single] > 0 => (FROM_EPOCH..pown[Single]) \subseteq pcover[Single]

\* A second successful tick after a restart: two windows back to back.
C38_Witness ==
    /\ pown[Single] >= 3 /\ pgot[Single] > 0
    /\ Cardinality(pcover[Single]) = pown[Single] + 1
    /\ ppc[Single] = "set" /\ psince[Single] = pown[Single]

\* C39: every write of the row 'timestamp' stores a time that is not
\* before the one it replaces, whichever pull adapter writes it.
C39_CheckpointNeverDecreases ==
    [][\A k \in Keys : attrs'[k] >= attrs[k]]_vars

Holders == {c \in Callers : lkpc[c] = "holding"}

\* C40 as stated: at most one caller holds the lock, and the event of
\* every release resolves one waiting acquire() if there is one.
C40_ReleaseWakesWaiter ==
    [][/\ Cardinality(Holders') <= 1
       /\ (emits' < emits /\ listeners # <<>>) =>
              Len(listeners') < Len(listeners)]_vars

\* C40, amended: at most one caller holds the lock, the lock is taken
\* exactly while a caller holds it, a free lock with a waiting acquire()
\* has its 'release' event pending, and such a lock is taken again: by
\* the acquire() that waited longest, or by a caller that called
\* acquire() before the event was emitted.
C40_MutualExclusion ==
    /\ [](/\ Cardinality(Holders) <= 1
          /\ locked <=> Holders # {}
          /\ (~locked /\ listeners # <<>>) => emits > 0)
    /\ ((~locked /\ listeners # <<>>) ~> locked)

\* One acquire() has resolved in its listener while another still waits.
C40_Witness ==
    \E c \in Callers :
        /\ lkpc[c] = "holding" /\ woken[c]
        /\ listeners # <<>> /\ emits = 0

\* C31: every call returns the same on both backends, and what the calls
\* before it call for: setSeen of a marked id and enqueue of a queued id
\* fail and no other call does, get gives the value last set for the
\* name (undefined when none or undefined was set), getMessages the
\* messages queued.
C31_BackendsInterchangeable ==
    blast # <<>> =>
        /\ blast.sqlite = blast.postgres
        /\ blast.sqlite = blast.expected

\* getMessages gives two messages, one of them with no member but its
\* id, after an id was marked and undefined was set for 'timestamp'.
C31_Witness ==
    /\ blast # <<>> /\ blast.op = "getMessages"
    /\ {<<"id", "m1">>} \in blast.sqlite
    /\ Cardinality(blast.postgres) = 2
    /\ sqlite.seen # {} /\ <<"timestamp", "null">> \in sqlite.attrs

\* Exactly sixteen hexadecimal digits.
IsEui(s) == Len(s) = 16 /\ \A k \in 1..16 : s[k] \in HexDigits

\* C32: every message QueueManager.push is called with, whichever
\* adapter made it, has an eui of exactly sixteen hexadecimal digits.
C32_EuiSixteenHex ==
    \A t \in PushIds :
        (t <= Len(dlog) /\ pc[t] # "idle") =>
            IsEui(dlog[t].msg.eui)

====
